---- MODULE Spec2Model ----
(***************************************************************************)
(* Model of the price-oracle core of palontologist/price-oracles:          *)
(*   - the unit/currency normalizer  (kamis-scraper: convertKamisPriceToUSD)*)
(*   - the four source adapters      (Alpha Vantage, Kamis, Tridge,         *)
(*                                    World Bank)                           *)
(*   - the fallback orchestrator     (fetchWheatMaizePrices)                *)
(*   - the live-prices front         (fetchLivePrices)                      *)
(*                                                                         *)
(* Numbers.  A JavaScript number is modelled by an integer counting        *)
(* thousandths (280.5 is 280500); NaN is the value NaN below.  Texts are    *)
(* TLA+ strings handled character by character, so toUpperCase, trim,       *)
(* includes, the price regular expression and parseFloat are computed, not  *)
(* assumed.  Timestamps (new Date().toISOString()) are left out of every    *)
(* record: no modelled decision reads them.                                 *)
(***************************************************************************)
EXTENDS Integers, Sequences, FiniteSets, TLC

VARIABLES
    pc,        \* position in fetchWheatMaizePrices
    idx,       \* index of the running for-loop over commodities
    options,   \* FetchOptions of the running call
    env,       \* process.env as read by the code
    results,   \* the accumulator `results`
    outcome,   \* per adapter and commodity: what the adapter call gave
    failed,    \* <<adapter, commodity>> pairs whose upstream request failed or whose call rejected
    kamisRequests, \* the requests for the Kamis market page issued by the running call
    live,      \* live-prices: function, position, symbols, commodities, allPrices, response
    conv,      \* normalizer harness: input, exchange rate, output
    par,       \* one adapter list call: its concurrent per-commodity tasks
    scrape,    \* scraper harness: one scrapeKamisPrices call, its page and its result
    db,        \* the tables commodities, markets and commodity_prices
    posts      \* the POST /api/oracle/wheat-maize requests in progress

vars == <<pc, idx, options, env, results, outcome, failed, kamisRequests, live, conv, par,
          scrape, db, posts>>

----------------------------------------------------------------------------
(* JavaScript numbers and strings                                          *)

NaN == -999999999

Char(s, i) == SubSeq(s, i, i)

Digits == {"0", "1", "2", "3", "4", "5", "6", "7", "8", "9"}

DigitVal(c) ==
    CASE c = "0" -> 0 [] c = "1" -> 1 [] c = "2" -> 2 [] c = "3" -> 3
      [] c = "4" -> 4 [] c = "5" -> 5 [] c = "6" -> 6 [] c = "7" -> 7
      [] c = "8" -> 8 [] c = "9" -> 9

\* String.prototype.includes
Includes(a, b) ==
    \E i \in 1..(Len(a) - Len(b) + 1) : SubSeq(a, i, i + Len(b) - 1) = b

Lower == "abcdefghijklmnopqrstuvwxyz"
Upper == "ABCDEFGHIJKLMNOPQRSTUVWXYZ"

UpperChar(c) ==
    IF \E k \in 1..26 : Char(Lower, k) = c
    THEN Char(Upper, CHOOSE k \in 1..26 : Char(Lower, k) = c)
    ELSE c

\* String.prototype.toUpperCase
RECURSIVE ToUpperCase(_)
ToUpperCase(s) ==
    IF s = "" THEN "" ELSE UpperChar(Char(s, 1)) \o ToUpperCase(SubSeq(s, 2, Len(s)))

\* String.prototype.trim (blanks are the only white space of the modelled texts)
RECURSIVE TrimStart(_)
TrimStart(s) ==
    IF s # "" /\ Char(s, 1) = " " THEN TrimStart(SubSeq(s, 2, Len(s))) ELSE s

RECURSIVE TrimEnd(_)
TrimEnd(s) ==
    IF s # "" /\ Char(s, Len(s)) = " " THEN TrimEnd(SubSeq(s, 1, Len(s) - 1)) ELSE s

Trim(s) == TrimEnd(TrimStart(s))

\* Length of the longest prefix of s made of characters of set cs
RECURSIVE RunLen(_, _)
RunLen(s, cs) ==
    IF s # "" /\ Char(s, 1) \in cs THEN 1 + RunLen(SubSeq(s, 2, Len(s)), cs) ELSE 0

\* text.match(/[\d,]+\.?\d*/): <<>> when there is no match, else <<match[0]>>
PriceMatch(text) ==
    LET starts == {i \in 1..Len(text) : Char(text, i) \in Digits \cup {","}}
    IN  IF starts = {} THEN <<>>
        ELSE LET i    == CHOOSE k \in starts : \A j \in starts : k <= j
                 rest == SubSeq(text, i, Len(text))
                 n1   == RunLen(rest, Digits \cup {","})
                 r2   == SubSeq(rest, n1 + 1, Len(rest))
                 dot  == IF r2 # "" /\ Char(r2, 1) = "." THEN 1 ELSE 0
                 n2   == RunLen(SubSeq(r2, dot + 1, Len(r2)), Digits)
             IN  <<SubSeq(rest, 1, n1 + dot + n2)>>

\* s.replace(/,/g, '')
RECURSIVE RemoveCommas(_)
RemoveCommas(s) ==
    IF s = "" THEN ""
    ELSE (IF Char(s, 1) = "," THEN "" ELSE Char(s, 1)) \o RemoveCommas(SubSeq(s, 2, Len(s)))

\* Value of a digit string, 0 for the empty string
RECURSIVE DigitsValue(_)
DigitsValue(s) ==
    IF s = "" THEN 0
    ELSE 10 * DigitsValue(SubSeq(s, 1, Len(s) - 1)) + DigitVal(Char(s, Len(s)))

\* parseFloat(s) in thousandths: leading blanks, an optional sign, digits, an
\* optional fraction; NaN when no digit is found.  The modelled texts carry at
\* most three fraction digits and no exponent.
ParseFloat(s) ==
    LET t    == TrimStart(s)
        sgn  == IF t # "" /\ Char(t, 1) \in {"-", "+"} THEN 1 ELSE 0
        u    == SubSeq(t, sgn + 1, Len(t))
        n1   == RunLen(u, Digits)
        r2   == SubSeq(u, n1 + 1, Len(u))
        dot  == IF r2 # "" /\ Char(r2, 1) = "." THEN 1 ELSE 0
        frac == SubSeq(r2, dot + 1, Len(r2))
        n2   == IF dot = 1 THEN RunLen(frac, Digits) ELSE 0
        mag  == 1000 * DigitsValue(SubSeq(u, 1, n1))
                  + (IF n2 = 0 THEN 0 ELSE DigitsValue(SubSeq(SubSeq(frac, 1, n2) \o "000", 1, 3)))
    IN  IF n1 + n2 = 0 THEN NaN
        ELSE IF sgn = 1 /\ Char(t, 1) = "-" THEN 0 - mag ELSE mag

\* JavaScript `x > 0` on a number that may be NaN
GtZero(x) == x # NaN /\ x > 0

\* JavaScript truthiness of a number
TruthyNum(x) == x # NaN /\ x # 0

\* process.env.NAME || fallback: an unset variable is <<>>, a set one <<text>>;
\* the empty text is falsy as well
EnvOr(e, d) == IF e = <<>> \/ e[1] = "" THEN d ELSE e[1]

----------------------------------------------------------------------------
(* kamis-scraper: constants, alias table, mock data                        *)

DEFAULT_KES_TO_USD_RATE == "154"
DEFAULT_BAG_SIZE_KG == "90"
DEFAULT_FLOUR_BAG_SIZE_KG == "2"

FLOUR_COMMODITIES ==
    [type \in {"WHEAT FLOUR", "MAIZE FLOUR"} |->
        IF type = "WHEAT FLOUR"
        THEN <<"WHEAT FLOUR", "UNGA WA NGANO", "FLOUR WHEAT", "SIFTED WHEAT FLOUR">>
        ELSE <<"MAIZE FLOUR", "UNGA WA MAHINDI", "FLOUR MAIZE", "SIFTED MAIZE FLOUR",
               "POSHO", "UGALI FLOUR">>]

\* One KamisPrice (the date is left out)
KamisPrice(commodity, price, currency, market, unit, productType) ==
    [commodity |-> commodity, price |-> price, currency |-> currency,
     market |-> market, unit |-> unit, productType |-> productType]

\* Variant of getMockKamisPrices that lists the bag quotes first
getMockKamisPricesBagsFirst ==
    << KamisPrice("WHEAT", 5400000, "KES", "Mombasa", "BAG", "grain"),
       KamisPrice("MAIZE", 4200000, "KES", "Kisumu", "BAG", "grain"),
       KamisPrice("WHEAT", 55000, "KES", "Nairobi", "KG", "grain"),
       KamisPrice("MAIZE", 45000, "KES", "Nairobi", "KG", "grain") >>

getMockKamisPrices ==
    << KamisPrice("WHEAT", 55000, "KES", "Nairobi", "KG", "grain"),
       KamisPrice("MAIZE", 45000, "KES", "Nairobi", "KG", "grain"),
       KamisPrice("WHEAT", 5400000, "KES", "Mombasa", "BAG", "grain"),
       KamisPrice("MAIZE", 4200000, "KES", "Kisumu", "BAG", "grain") >>

getMockKamisFlourPrices ==
    << KamisPrice("WHEAT FLOUR", 200000, "KES", "Nairobi", "2KG", "flour"),
       KamisPrice("WHEAT FLOUR", 195000, "KES", "Mombasa", "2KG", "flour"),
       KamisPrice("WHEAT FLOUR", 210000, "KES", "Kisumu", "2KG", "flour"),
       KamisPrice("WHEAT FLOUR", 205000, "KES", "Nakuru", "2KG", "flour"),
       KamisPrice("MAIZE FLOUR", 145000, "KES", "Nairobi", "2KG", "flour"),
       KamisPrice("MAIZE FLOUR", 140000, "KES", "Mombasa", "2KG", "flour"),
       KamisPrice("MAIZE FLOUR", 150000, "KES", "Kisumu", "2KG", "flour"),
       KamisPrice("MAIZE FLOUR", 148000, "KES", "Eldoret", "2KG", "flour") >>

\* isFlourCommodity: type is "" where the code returns null
AliasHit(upperName, aliases) ==
    \E k \in 1..Len(aliases) :
        Includes(upperName, aliases[k]) \/ Includes(aliases[k], upperName)

isFlourCommodity(commodityName) ==
    LET upperName == ToUpperCase(commodityName)
    IN  IF AliasHit(upperName, FLOUR_COMMODITIES["WHEAT FLOUR"])
        THEN [isFlour |-> TRUE, type |-> "WHEAT FLOUR"]
        ELSE IF AliasHit(upperName, FLOUR_COMMODITIES["MAIZE FLOUR"])
        THEN [isFlour |-> TRUE, type |-> "MAIZE FLOUR"]
        ELSE [isFlour |-> FALSE, type |-> ""]

----------------------------------------------------------------------------
(* kamis-scraper: convertKamisPriceToUSD and getKamisFlourPricePerKg       *)

\* Exact fractions n / d (d > 0), kept in lowest terms
RECURSIVE Gcd(_, _)
Gcd(a, b) == IF b = 0 THEN a ELSE Gcd(b, a % b)

Frac(n, d) == LET g == Gcd(n, d) IN [n |-> n \div g, d |-> d \div g]

FracMul(f, k) == LET g == Gcd(k, f.d) IN Frac(f.n * (k \div g), f.d \div g)

FracDiv(f, k) == LET g == Gcd(f.n, k) IN Frac(f.n \div g, f.d * (k \div g))

\* Math.round(n / d) for n >= 0 and d > 0: the nearest integer, halves going up
\* (quotient first, so that large numerators stay in range)
MathRound(n, d) == (n \div d) + ((2 * (n % d) + d) \div (2 * d))

\* The exchange rate convertKamisPriceToUSD takes when the caller gives none
DefaultExchangeRate(e) ==
    ParseFloat(EnvOr(e.KES_TO_USD_RATE, DEFAULT_KES_TO_USD_RATE))

\* Variant of CurrencyStep that divides by the rate whatever the currency
CurrencyStepAnyCurrency(kamisPrice, exchangeRate) ==
    Frac(kamisPrice.price, exchangeRate)

\* priceInUSD after the currency step, as an exact fraction of one USD
\* (price and exchangeRate are both in thousandths)
CurrencyStep(kamisPrice, exchangeRate) ==
    IF kamisPrice.currency = "KES"
    THEN Frac(kamisPrice.price, exchangeRate)
    ELSE Frac(kamisPrice.price, 1000)

\* kamisPrice.unit?.toUpperCase() || 'KG'
UnitOf(kamisPrice) ==
    IF ToUpperCase(kamisPrice.unit) = "" THEN "KG" ELSE ToUpperCase(kamisPrice.unit)

\* Variant of BagSizeKg that takes the grain bag size for every product type
BagSizeKgGrainOnly(kamisPrice, e) ==
    ParseFloat(EnvOr(e.KAMIS_BAG_SIZE_KG, DEFAULT_BAG_SIZE_KG))

\* Bag size for unit BAG, in thousandths of a kilogram
BagSizeKg(kamisPrice, e) ==
    IF kamisPrice.productType = "flour"
    THEN ParseFloat(EnvOr(e.KAMIS_FLOUR_BAG_SIZE_KG, DEFAULT_FLOUR_BAG_SIZE_KG))
    ELSE ParseFloat(EnvOr(e.KAMIS_BAG_SIZE_KG, DEFAULT_BAG_SIZE_KG))

\* Variant of PacketSize that takes the 2 kg packet for every product type
PacketSizeAlwaysTwo(kamisPrice) == 2

\* Packet size in kilograms for unit PACKET / PKT
PacketSize(kamisPrice) == IF kamisPrice.productType = "flour" THEN 2 ELSE 1

\* Variant of UnitStep that scales a unit it does not know like kilograms
UnitStepUnknownAsKg(usd, kamisPrice, e) ==
    LET unit == UnitOf(kamisPrice)
    IN  IF unit = "BAG"
        THEN FracMul(FracDiv(usd, BagSizeKg(kamisPrice, e)), 1000 * 1000)
        ELSE IF unit = "2KG" \/ unit = "2 KG"
        THEN FracMul(FracDiv(usd, 2), 1000)
        ELSE IF unit = "PACKET" \/ unit = "PKT"
        THEN FracMul(FracDiv(usd, PacketSize(kamisPrice)), 1000)
        ELSE FracMul(usd, 1000)

\* priceInUSD after the unit step
UnitStep(usd, kamisPrice, e) ==
    LET unit == UnitOf(kamisPrice)
    IN  IF unit = "KG" \/ unit = "KILOGRAM"
        THEN FracMul(usd, 1000)
        ELSE IF unit = "BAG"
        THEN FracMul(FracDiv(usd, BagSizeKg(kamisPrice, e)), 1000 * 1000)
        ELSE IF unit = "2KG" \/ unit = "2 KG"
        THEN FracMul(FracDiv(usd, 2), 1000)
        ELSE IF unit = "PACKET" \/ unit = "PKT"
        THEN FracMul(FracDiv(usd, PacketSize(kamisPrice)), 1000)
        ELSE usd

\* Math.round(priceInUSD * 100) / 100, in thousandths
RoundPrice(usd) == LET c == FracMul(usd, 100) IN 10 * MathRound(c.n, c.d)

\* Variant of convertKamisPriceToUSD that keeps the currency label of its input
convertKamisPriceKeepCurrency(kamisPrice, exchangeRate, e) ==
    [commodity |-> kamisPrice.commodity,
     price     |-> RoundPrice(UnitStep(CurrencyStep(kamisPrice, exchangeRate), kamisPrice, e)),
     currency  |-> kamisPrice.currency,
     market    |-> kamisPrice.market]

\* convertKamisPriceToUSD(kamisPrice, exchangeRate): a TridgePrice
convertKamisPriceToUSD(kamisPrice, exchangeRate, e) ==
    [commodity |-> kamisPrice.commodity,
     price     |-> RoundPrice(UnitStep(CurrencyStep(kamisPrice, exchangeRate), kamisPrice, e)),
     currency  |-> "USD",
     market    |-> kamisPrice.market]

\* getKamisFlourPricePerKg: the kilogram size the price is divided by
PerKgDivisor(kamisPrice) ==
    LET unit == UnitOf(kamisPrice)
    IN  IF unit = "2KG" \/ unit = "2 KG" THEN 2
        ELSE IF unit = "BAG" \/ unit = "PACKET" \/ unit = "PKT" THEN PacketSize(kamisPrice)
        ELSE 1

getKamisFlourPricePerKg(kamisPrice) ==
    [pricePerKg |-> RoundPrice(FracDiv(Frac(kamisPrice.price, 1000), PerKgDivisor(kamisPrice))),
     currency   |-> kamisPrice.currency]

----------------------------------------------------------------------------
(* kamis-scraper: scrapeKamisPrices                                        *)
(* A page is [status, tables]: status "error" is a failed request (network *)
(* error, timeout, non-2xx); tables are the page's tables in document      *)
(* order, each [classes, id, inside, rows] with `inside` the classes of    *)
(* its ancestors and rows the <tr> rows, each the texts of its <td> cells. *)

tableSelectors ==
    << "table.table", "table.table-striped", "table.market-prices", "table#market-data",
       ".market-table table", ".table-responsive table", "#prices-table", "table" >>

SelectorMatches(selector, t) ==
    CASE selector = "table.table"             -> "table" \in t.classes
      [] selector = "table.table-striped"     -> "table-striped" \in t.classes
      [] selector = "table.market-prices"     -> "market-prices" \in t.classes
      [] selector = "table#market-data"       -> t.id = "market-data"
      [] selector = ".market-table table"     -> "market-table" \in t.inside
      [] selector = ".table-responsive table" -> "table-responsive" \in t.inside
      [] selector = "#prices-table"           -> t.id = "prices-table"
      [] selector = "table"                   -> TRUE

\* $(selector).first(): <<>> for an empty selection
FirstMatch(page, selector) ==
    LET hits == {k \in 1..Len(page.tables) : SelectorMatches(selector, page.tables[k])}
    IN  IF hits = {} THEN <<>>
        ELSE <<page.tables[CHOOSE k \in hits : \A j \in hits : k <= j]>>

\* The selection loop: the first selector whose first match has more than one row
RECURSIVE MarketTableFrom(_, _)
MarketTableFrom(page, k) ==
    IF k > Len(tableSelectors) THEN <<>>
    ELSE LET table == FirstMatch(page, tableSelectors[k])
         IN  IF Len(table) > 0 /\ Len(table[1].rows) > 1 THEN table
             ELSE MarketTableFrom(page, k + 1)

MarketTable(page) == MarketTableFrom(page, 1)

\* commodities.some(c => commodityName.includes(C) || C.includes(commodityName))
FilterHit(commodityName, commodities) ==
    \E k \in 1..Len(commodities) :
        LET upperC == ToUpperCase(commodities[k])
        IN  Includes(commodityName, upperC) \/ Includes(upperC, commodityName)

\* One table row: <<>> when the row is skipped, else <<the KamisPrice pushed>>.
\* `commodities` is <<>> for undefined and <<list>> for a given filter list.
ParseRow(cells, commodities, flourOnly) ==
    IF Len(cells) < 3 THEN <<>>
    ELSE
    LET commodityName == ToUpperCase(Trim(cells[1]))
        market        == Trim(cells[2])
        priceText     == Trim(cells[3])
        priceMatch    == PriceMatch(priceText)
    IN  IF priceMatch = <<>> THEN <<>>
        ELSE
        LET price         == ParseFloat(RemoveCommas(priceMatch[1]))
            flourCheck    == isFlourCommodity(commodityName)
            flourHit      == flourCheck.isFlour /\ flourCheck.type # ""
            shouldInclude == IF flourOnly THEN flourHit
                             ELSE IF commodities # <<>>
                             THEN FilterHit(commodityName, commodities[1])
                             ELSE TRUE
            normalizedCommodity == IF flourHit THEN flourCheck.type ELSE commodityName
            productType   == IF flourHit THEN "flour" ELSE "grain"
            currency      == IF Includes(priceText, "USD") \/ Includes(priceText, "$")
                             THEN "USD" ELSE "KES"
            unitText      == IF Len(cells) >= 4 THEN ToUpperCase(Trim(cells[4])) ELSE ""
            unit          == IF unitText # "" THEN unitText ELSE "KG"
        IN  IF shouldInclude /\ GtZero(price)
            THEN <<KamisPrice(normalizedCommodity, price, currency,
                              IF market # "" THEN market ELSE "Nairobi", unit, productType)>>
            ELSE <<>>

\* Variant of ParseRows that stops at the first row it skips
RECURSIVE ParseRowsUntilSkipped(_, _, _)
ParseRowsUntilSkipped(rows, commodities, flourOnly) ==
    IF rows = <<>> \/ ParseRow(Head(rows), commodities, flourOnly) = <<>> THEN <<>>
    ELSE ParseRow(Head(rows), commodities, flourOnly)
            \o ParseRowsUntilSkipped(Tail(rows), commodities, flourOnly)

RECURSIVE ParseRows(_, _, _)
ParseRows(rows, commodities, flourOnly) ==
    IF rows = <<>> THEN <<>>
    ELSE ParseRow(Head(rows), commodities, flourOnly)
            \o ParseRows(Tail(rows), commodities, flourOnly)

\* Variant of MockFor that gives an empty list
MockForNothing(flourOnly) == <<>>

MockFor(flourOnly) == IF flourOnly THEN getMockKamisFlourPrices ELSE getMockKamisPrices

scrapeKamisPrices(page, commodities, flourOnly) ==
    IF page.status = "error" THEN MockFor(flourOnly)
    ELSE LET marketTable == MarketTable(page)
         IN  IF marketTable = <<>> THEN MockFor(flourOnly)
             ELSE LET prices == ParseRows(marketTable[1].rows, commodities, flourOnly)
                  IN  IF Len(prices) = 0 /\ flourOnly THEN getMockKamisFlourPrices
                      ELSE prices

scrapeKamisFlourPrices(page) == scrapeKamisPrices(page, <<>>, TRUE)

scrapeKamisWheatMaizePrices(page) ==
    scrapeKamisPrices(page, << <<"WHEAT", "MAIZE", "CORN">> >>, FALSE)

----------------------------------------------------------------------------
(* tridge-scraper                                                          *)
(* A Tridge page is [status, texts]: texts[k] is $(priceSelectors[k])      *)
(* .first().text(), "" when nothing matches the selector.                  *)

TRIDGE_URLS == {"WHEAT", "MAIZE", "CORN"}

priceSelectors == << ".price-value", ".current-price", "[data-testid=price-value]", ".price" >>

\* The selector loop: <<>> while price is null, else <<price>>
RECURSIVE TridgePriceFrom(_, _)
TridgePriceFrom(texts, k) ==
    IF k > Len(priceSelectors) THEN <<>>
    ELSE LET priceText == Trim(texts[k])
             match     == PriceMatch(priceText)
         IN  IF priceText # "" /\ match # <<>>
             THEN <<ParseFloat(RemoveCommas(match[1]))>>
             ELSE TridgePriceFrom(texts, k + 1)

\* scrapeTridgePrice: <<>> for null, else <<TridgePrice>>
scrapeTridgePrice(commodity, page) ==
    IF commodity \notin TRIDGE_URLS \/ page.status = "error" THEN <<>>
    ELSE LET price == TridgePriceFrom(page.texts, 1)
         IN  IF price # <<>> /\ TruthyNum(price[1]) /\ GtZero(price[1])
             THEN << [commodity |-> commodity, price |-> price[1],
                      currency |-> "USD", market |-> "Kenya"] >>
             ELSE <<>>

\* scrapeTridgePrices: Promise.allSettled over the commodities, fulfilled and
\* non-null values kept in order; pages[k] answers commodities[k]
RECURSIVE scrapeTridgePrices(_, _)
scrapeTridgePrices(commodities, pages) ==
    IF commodities = <<>> THEN <<>>
    ELSE scrapeTridgePrice(Head(commodities), Head(pages))
            \o scrapeTridgePrices(Tail(commodities), Tail(pages))

getMockTridgePrice(commodity) ==
    [commodity |-> commodity,
     price     |-> IF commodity = "WHEAT" THEN 285500 ELSE 225750,
     currency  |-> "USD",
     market    |-> "Nairobi"]

----------------------------------------------------------------------------
(* world-bank-fetcher                                                      *)
(* A response is [status, data]: data is the JSON body as a sequence (<<>> *)
(* when it is no array); its second element is the list of observations,   *)
(* each [value |-> text], the text being String(value) ("null" for null).   *)

fetchWorldBankPrice(commodity, response) ==
    IF response.status = "error" THEN <<>>
    ELSE LET data == response.data
         IN  IF Len(data) > 1 /\ Len(data[2]) > 0
             THEN << [commodity |-> commodity, price |-> ParseFloat(data[2][1].value),
                      currency |-> "USD"] >>
             ELSE <<>>

RECURSIVE fetchWorldBankPrices(_, _)
fetchWorldBankPrices(commodities, responses) ==
    IF commodities = <<>> THEN <<>>
    ELSE fetchWorldBankPrice(Head(commodities), Head(responses))
            \o fetchWorldBankPrices(Tail(commodities), Tail(responses))

----------------------------------------------------------------------------
(* alpha-vantage-fetcher                                                   *)
(* A response is [status, quote]: quote is <<>> when the body has no       *)
(* 'Global Quote', else <<text of its '05. price'>>.                       *)

fetchAlphaVantagePrice(commodity, apiKey, response) ==
    IF apiKey = "" THEN <<>>
    ELSE IF response.status = "error" THEN <<>>
    ELSE IF response.quote # <<>>
    THEN << [commodity |-> commodity, price |-> ParseFloat(response.quote[1]),
             currency |-> "USD"] >>
    ELSE <<>>

RECURSIVE AlphaVantageAll(_, _, _)
AlphaVantageAll(commodities, apiKey, responses) ==
    IF commodities = <<>> THEN <<>>
    ELSE fetchAlphaVantagePrice(Head(commodities), apiKey, Head(responses))
            \o AlphaVantageAll(Tail(commodities), apiKey, Tail(responses))

fetchAlphaVantagePrices(commodities, apiKey, responses) ==
    IF apiKey = "" THEN <<>> ELSE AlphaVantageAll(commodities, apiKey, responses)

----------------------------------------------------------------------------
(* Upstream answers the model draws from                                   *)

AVResponses ==
    { [status |-> "error", quote |-> <<>>],
      [status |-> "ok",    quote |-> <<>>],
      [status |-> "ok",    quote |-> <<"612.25">>],
      [status |-> "ok",    quote |-> <<"0.0000">>],
      [status |-> "ok",    quote |-> <<"undefined">>] }

TridgePages ==
    { [status |-> "error", texts |-> <<"", "", "", "">>],
      [status |-> "ok",    texts |-> <<"", "", "", "">>],
      [status |-> "ok",    texts |-> <<" $280.50 ", "", "", "">>],
      [status |-> "ok",    texts |-> <<"N/A", "", "", "1,234.505 USD">>],
      [status |-> "ok",    texts |-> <<"", "KES 0", "", "99">>] }

WBMeta == [page |-> 1]

WBResponses ==
    { [status |-> "error", data |-> <<>>],
      [status |-> "ok",    data |-> <<>>],
      [status |-> "ok",    data |-> <<WBMeta>>],
      [status |-> "ok",    data |-> <<WBMeta, <<>> >>],
      [status |-> "ok",    data |-> <<WBMeta, << [value |-> "265.3"] >> >>],
      [status |-> "ok",    data |-> <<WBMeta, << [value |-> "null"] >> >>],
      [status |-> "ok",    data |-> <<WBMeta, << [value |-> "0"] >> >>],
      [status |-> "ok",    data |-> <<WBMeta, << [value |-> "-12.5"] >> >>] }

HtmlTable(classes, id, inside, rows) ==
    [classes |-> classes, id |-> id, inside |-> inside, rows |-> rows]

HeaderRow == <<>>

GrainRows ==
    << HeaderRow,
       <<"Wheat", "Nairobi", "KES 5,400", "Bag">>,
       <<"Dry Maize", "Kisumu", "4,200.50", " 90 kg bag ">>,
       <<" Corn ", "", "$ 0.35">>,
       <<"Rice", "Mombasa", "N/A", "kg">>,
       <<"Maize", "Eldoret", "0", "kg">>,
       <<"Beans", "Nakuru">> >>

FlourRows ==
    << HeaderRow,
       <<"Unga wa Ngano", "Nairobi", "198.00", "2kg">>,
       <<"Wheat Flour", "Mombasa", "Ksh 210", "Packet">>,
       <<"Posho", "Kisumu", "USD 1.10", "kg">>,
       <<"Beans", "Nakuru", "120", "kg">> >>

OtherRows ==
    << HeaderRow,
       <<"Beans", "Nakuru", "120", "kg">>,
       <<"Rice", "Mombasa", "95", "kg">> >>

PageError    == [status |-> "error", tables |-> <<>>]
PageNoTable  == [status |-> "ok", tables |-> <<>>]
PageOneRow   == [status |-> "ok",
                 tables |-> << HtmlTable({"table"}, "", {}, <<HeaderRow>>) >>]
PageGrain    == [status |-> "ok",
                 tables |-> << HtmlTable({"table", "table-striped"}, "", {}, GrainRows) >>]
PageFlour    == [status |-> "ok",
                 tables |-> << HtmlTable({}, "market-data", {"table-responsive"}, FlourRows) >>]
PageOther    == [status |-> "ok",
                 tables |-> << HtmlTable({}, "", {}, OtherRows) >>]
PageLayout   == [status |-> "ok",
                 tables |-> << HtmlTable({}, "", {}, <<HeaderRow>>),
                               HtmlTable({}, "", {}, GrainRows) >>]

KamisPages ==
    {PageError, PageNoTable, PageOneRow, PageGrain, PageFlour, PageOther, PageLayout}

----------------------------------------------------------------------------
(* wheat-maize-fetcher: fetchWheatMaizePrices                              *)

\* Variant of FALLBACK_PRICES with the two flour constants exchanged
FALLBACK_PRICES_FlourSwapped ==
    [c \in {"WHEAT", "MAIZE", "WHEAT FLOUR", "MAIZE FLOUR"} |->
        CASE c = "WHEAT" -> 280000
          [] c = "MAIZE" -> 220000
          [] c = "WHEAT FLOUR" -> 480000
          [] c = "MAIZE FLOUR" -> 650000]

FALLBACK_PRICES ==
    [c \in {"WHEAT", "MAIZE", "WHEAT FLOUR", "MAIZE FLOUR"} |->
        CASE c = "WHEAT" -> 280000
          [] c = "MAIZE" -> 220000
          [] c = "WHEAT FLOUR" -> 650000
          [] c = "MAIZE FLOUR" -> 480000]

DataSource == {"Alpha Vantage", "Kamis", "Tridge", "World Bank", "Fallback"}

Adapters == {"Alpha Vantage", "Kamis", "Tridge", "World Bank"}

\* One PriceData (timestamp left out); market is <<>> where the code sets none
PriceData(commodity, price, currency, source, market, productType) ==
    [commodity |-> commodity, price |-> price, currency |-> currency,
     source |-> source, market |-> market, unit |-> "MT", productType |-> productType]

\* The commodities a call works on: options.commodity is <<>> when not given
Commodities(o) ==
    IF o.commodity # <<>> /\ o.commodity[1] # "" THEN <<o.commodity[1]>>
    ELSE IF o.includeFlour THEN <<"WHEAT", "MAIZE", "WHEAT FLOUR", "MAIZE FLOUR">>
    ELSE <<"WHEAT", "MAIZE">>

IsFlourName(c) == Includes(c, "FLOUR")
\* Variant of IsGrainName that takes every commodity for a grain
IsGrainNameAlways(c) == TRUE

IsGrainName(c) == ~Includes(c, "FLOUR")

flourCommodities(o) == SelectSeq(Commodities(o), IsFlourName)
grainCommodities(o) == SelectSeq(Commodities(o), IsGrainName)

\* Variant of EnvTruthy that only tests that the variable is set
EnvDefined(v) == v # <<>>

EnvTruthy(v) == v # <<>> /\ v[1] # ""

useMockTridge(o, e) == o.useMockTridge \/ e.USE_MOCK_TRIDGE = <<"true">>
useMockKamis(o, e)  == o.useMockKamis \/ e.USE_MOCK_KAMIS = <<"true">>

\* Variant of Found that never sees a quote
NeverFound(rs, commodity) == FALSE

\* results.find(r => r.commodity === commodity) is truthy
Found(rs, commodity) == \E k \in 1..Len(rs) : rs[k].commodity = commodity

\* Variant of FirstFor that takes the last match
LastFor(list, commodity) ==
    LET hits == {k \in 1..Len(list) : list[k].commodity = commodity}
    IN  IF hits = {} THEN <<>>
        ELSE <<list[CHOOSE k \in hits : \A j \in hits : k >= j]>>

\* list.find(p => p.commodity === commodity) / list.filter(...)[0]:
\* <<>> for undefined, else <<the first match>>
FirstFor(list, commodity) ==
    LET hits == {k \in 1..Len(list) : list[k].commodity = commodity}
    IN  IF hits = {} THEN <<>>
        ELSE <<list[CHOOSE k \in hits : \A j \in hits : k <= j]>>

\* Which awaited adapter calls sit inside a try block with a catch
InTry(site) == site \in {"Alpha Vantage", "Kamis flour", "Kamis", "Tridge", "World Bank"}

\* Where control goes when the awaited adapter call rejects
AfterRejection(site, next) == IF InTry(site) THEN next ELSE "threw"

Mark(oc, adapter, commodity, what) == [oc EXCEPT ![adapter][commodity] = what]

RECURSIVE MarkAll(_, _, _, _)
MarkAll(oc, adapter, commodities, what) ==
    IF commodities = <<>> THEN oc
    ELSE MarkAll(Mark(oc, adapter, Head(commodities), what), adapter, Tail(commodities), what)

\* What one adapter call gave for one commodity
Gave(list, commodity) == IF Found(list, commodity) THEN "quote" ELSE "empty"

RECURSIVE MarkGave(_, _, _, _)
MarkGave(oc, adapter, commodities, list) ==
    IF commodities = <<>> THEN oc
    ELSE MarkGave(Mark(oc, adapter, Head(commodities), Gave(list, Head(commodities))),
                  adapter, Tail(commodities), list)

\* The pairs <<adapter, commodities[k]>>, k in ks
Pairs(adapter, commodities, ks) == {<<adapter, commodities[k]>> : k \in ks}

\* The requests of one concurrent adapter call that failed
Errors(responses) == {k \in DOMAIN responses : responses[k].status = "error"}

\* 1. Alpha Vantage: every returned quote is pushed
RECURSIVE PushAlpha(_, _)
PushAlpha(rs, alphaPrices) ==
    IF alphaPrices = <<>> THEN rs
    ELSE PushAlpha(Append(rs, PriceData(Head(alphaPrices).commodity, Head(alphaPrices).price,
                                        Head(alphaPrices).currency, "Alpha Vantage", <<>>,
                                        "grain")),
                   Tail(alphaPrices))

AlphaVantageStep ==
    /\ pc = "alphaVantage"
    /\ LET grains == grainCommodities(options)
       IN  IF EnvTruthy(env.ALPHA_VANTAGE_KEY) /\ Len(grains) > 0
           THEN \/ \E responses \in [1..Len(grains) -> AVResponses] :
                     LET alphaPrices == fetchAlphaVantagePrices(grains, env.ALPHA_VANTAGE_KEY[1],
                                                                responses)
                     IN  /\ results' = PushAlpha(results, alphaPrices)
                         /\ outcome' = MarkGave(outcome, "Alpha Vantage", grains, alphaPrices)
                         /\ failed' = failed \cup Pairs("Alpha Vantage", grains,
                                                         Errors(responses))
                         /\ pc' = "kamisFlour"
                \/ /\ results' = results
                   /\ outcome' = MarkAll(outcome, "Alpha Vantage", grains, "throw")
                   /\ failed' = failed \cup Pairs("Alpha Vantage", grains, DOMAIN grains)
                   /\ pc' = AfterRejection("Alpha Vantage", "kamisFlour")
           ELSE /\ pc' = "kamisFlour"
                /\ UNCHANGED <<results, outcome, failed>>
    /\ idx' = 1
    /\ UNCHANGED <<options, env, kamisRequests, live, conv, par,
                 scrape, db, posts>>

\* Variant of PushFlour that pushes every scraped flour price, requested or not
RECURSIVE PushAllFlour(_, _, _, _)
PushAllFlour(rs, flours, kamisFlourPrices, e) ==
    IF kamisFlourPrices = <<>> THEN rs
    ELSE LET convertedPrice ==
                 convertKamisPriceToUSD(Head(kamisFlourPrices), DefaultExchangeRate(e), e)
         IN  PushAllFlour(Append(rs, PriceData(convertedPrice.commodity, convertedPrice.price,
                                               convertedPrice.currency, "Kamis",
                                               <<convertedPrice.market>>, "flour")),
                          flours, Tail(kamisFlourPrices), e)

\* 2a. Kamis, flour pass: the loop over flourCommodities after the one fetch
RECURSIVE PushFlour(_, _, _, _)
PushFlour(rs, flours, kamisFlourPrices, e) ==
    IF flours = <<>> THEN rs
    ELSE LET flourCommodity == Head(flours)
             matchingPrice  == FirstFor(kamisFlourPrices, flourCommodity)
         IN  IF ~Found(rs, flourCommodity) /\ matchingPrice # <<>>
             THEN LET convertedPrice ==
                          convertKamisPriceToUSD(matchingPrice[1], DefaultExchangeRate(e), e)
                  IN  PushFlour(Append(rs, PriceData(convertedPrice.commodity,
                                                     convertedPrice.price,
                                                     convertedPrice.currency, "Kamis",
                                                     <<convertedPrice.market>>, "flour")),
                                Tail(flours), kamisFlourPrices, e)
             ELSE PushFlour(rs, Tail(flours), kamisFlourPrices, e)

\* What scrapeKamisFlourPrices can resolve to, over the pages drawn
\* (error: the page request failed)
ScrapedFlourLists ==
    {[error |-> page.status = "error", prices |-> scrapeKamisFlourPrices(page)] :
        page \in KamisPages}

\* The request log after one scrape: the mock data is returned without a request
KamisRequest(log, o, e, pass, scraped) ==
    IF useMockKamis(o, e) THEN log
    ELSE Append(log, [pass |-> pass, error |-> scraped.error])

KamisFlourLists(o, e) ==
    IF useMockKamis(o, e) THEN {[error |-> FALSE, prices |-> getMockKamisFlourPrices]}
    ELSE ScrapedFlourLists

KamisFlourStep ==
    /\ pc = "kamisFlour"
    /\ LET flours == flourCommodities(options)
       IN  IF Len(flours) > 0
           THEN \/ \E scraped \in KamisFlourLists(options, env) :
                     LET kamisFlourPrices == scraped.prices
                     IN  /\ results' = PushFlour(results, flours, kamisFlourPrices, env)
                         /\ outcome' = MarkGave(outcome, "Kamis", flours, kamisFlourPrices)
                         /\ failed' = IF scraped.error
                                      THEN failed \cup Pairs("Kamis", flours, DOMAIN flours)
                                      ELSE failed
                         /\ kamisRequests' = KamisRequest(kamisRequests, options, env,
                                                           "flour", scraped)
                         /\ pc' = "kamisGrain"
                \/ /\ ~useMockKamis(options, env)
                   /\ results' = results
                   /\ kamisRequests' \in {kamisRequests}
                          \cup {Append(kamisRequests, [pass |-> "flour", error |-> e]) :
                                    e \in BOOLEAN}
                   /\ outcome' = MarkAll(outcome, "Kamis", flours, "throw")
                   /\ failed' = failed \cup Pairs("Kamis", flours, DOMAIN flours)
                   /\ pc' = AfterRejection("Kamis flour", "kamisGrain")
           ELSE /\ pc' = "kamisGrain"
                /\ UNCHANGED <<results, outcome, failed, kamisRequests>>
    /\ idx' = 1
    /\ UNCHANGED <<options, env, live, conv, par,
                 scrape, db, posts>>

\* A scrape that rejects does so from the catch block of scrapeKamisPrices,
\* which is entered from anywhere in the try block: after the page request
\* failed, or after it was answered and a later statement threw.  The request
\* is then in the log, failed or answered.  A rejection raised outside the
\* scraper leaves the log as it is.
\* 2b. Kamis, grain pass: one loop iteration, or the end of the loop
\* What scrapeKamisWheatMaizePrices can resolve to, over the pages drawn
\* (error: the page request failed)
ScrapedGrainLists ==
    {[error |-> page.status = "error", prices |-> scrapeKamisWheatMaizePrices(page)] :
        page \in KamisPages}

KamisGrainLists(o, e) ==
    IF useMockKamis(o, e) THEN {[error |-> FALSE, prices |-> getMockKamisPrices]}
    ELSE ScrapedGrainLists

\* Variant of PushKamisGrain that drops the matching price
PushKamisGrainDropped(rs, matchingPrice, e) == rs

PushKamisGrain(rs, matchingPrice, e) ==
    IF matchingPrice # <<>>
    THEN LET convertedPrice ==
                 convertKamisPriceToUSD(matchingPrice[1], DefaultExchangeRate(e), e)
         IN  Append(rs, PriceData(convertedPrice.commodity, convertedPrice.price,
                                  convertedPrice.currency, "Kamis",
                                  <<convertedPrice.market>>, "grain"))
    ELSE rs

KamisGrainStep ==
    /\ pc = "kamisGrain"
    /\ LET grains == grainCommodities(options)
       IN  IF idx > Len(grains)
           THEN /\ pc' = "tridge"
                /\ idx' = 1
                /\ UNCHANGED <<results, outcome, failed, kamisRequests>>
           ELSE LET commodity == grains[idx]
                IN  IF ~Found(results, commodity)
                    THEN \/ \E scraped \in KamisGrainLists(options, env) :
                              LET kamisPrices == scraped.prices
                              IN  /\ results' = PushKamisGrain(results,
                                                    FirstFor(kamisPrices, commodity), env)
                                  /\ outcome' = Mark(outcome, "Kamis", commodity,
                                                     Gave(kamisPrices, commodity))
                                  /\ failed' = IF scraped.error
                                               THEN failed \cup {<<"Kamis", commodity>>}
                                               ELSE failed
                                  /\ kamisRequests' = KamisRequest(kamisRequests, options,
                                                                    env, "grain", scraped)
                                  /\ pc' = pc
                                  /\ idx' = idx + 1
                         \/ /\ ~useMockKamis(options, env)
                            /\ results' = results
                            /\ kamisRequests' \in {kamisRequests}
                               \cup {Append(kamisRequests, [pass |-> "grain", error |-> e]) :
                                         e \in BOOLEAN}
                            /\ outcome' = Mark(outcome, "Kamis", commodity, "throw")
                            /\ failed' = failed \cup {<<"Kamis", commodity>>}
                            /\ pc' = AfterRejection("Kamis", pc)
                            /\ idx' = idx + 1
                    ELSE /\ idx' = idx + 1
                         /\ UNCHANGED <<pc, results, outcome, failed, kamisRequests>>
    /\ UNCHANGED <<options, env, live, conv, par,
                 scrape, db, posts>>

\* 3. Tridge
\* tridgePrices.find(...) after scrapeTridgePrices([commodity]), over the pages drawn
\* (error: the page request failed)
ScrapedTridge ==
    [commodity \in TRIDGE_URLS |->
        {[error |-> page.status = "error",
          price |-> FirstFor(scrapeTridgePrices(<<commodity>>, <<page>>), commodity)] :
            page \in TridgePages}]

TridgeAnswers(o, e, commodity) ==
    IF useMockTridge(o, e) THEN {[error |-> FALSE, price |-> <<getMockTridgePrice(commodity)>>]}
    ELSE ScrapedTridge[commodity]

PushTridge(rs, tridgePrice) ==
    IF tridgePrice # <<>>
    THEN Append(rs, PriceData(tridgePrice[1].commodity, tridgePrice[1].price,
                              tridgePrice[1].currency, "Tridge",
                              <<tridgePrice[1].market>>, "grain"))
    ELSE rs

TridgeStep ==
    /\ pc = "tridge"
    /\ LET grains == grainCommodities(options)
       IN  IF idx > Len(grains)
           THEN /\ pc' = "worldBank"
                /\ idx' = 1
                /\ UNCHANGED <<results, outcome, failed>>
           ELSE LET commodity == grains[idx]
                IN  IF ~Found(results, commodity)
                    THEN \/ \E scraped \in TridgeAnswers(options, env, commodity) :
                              LET tridgePrice == scraped.price
                              IN  /\ results' = PushTridge(results, tridgePrice)
                                  /\ outcome' = Mark(outcome, "Tridge", commodity,
                                                     IF tridgePrice # <<>> THEN "quote"
                                                     ELSE "empty")
                                  /\ failed' = IF scraped.error
                                               THEN failed \cup {<<"Tridge", commodity>>}
                                               ELSE failed
                                  /\ pc' = pc
                                  /\ idx' = idx + 1
                         \/ /\ ~useMockTridge(options, env)
                            /\ results' = results
                            /\ outcome' = Mark(outcome, "Tridge", commodity, "throw")
                            /\ failed' = failed \cup {<<"Tridge", commodity>>}
                            /\ pc' = AfterRejection("Tridge", pc)
                            /\ idx' = idx + 1
                    ELSE /\ idx' = idx + 1
                         /\ UNCHANGED <<pc, results, outcome, failed>>
    /\ UNCHANGED <<options, env, kamisRequests, live, conv, par,
                 scrape, db, posts>>

\* 4. World Bank
PushWorldBank(rs, worldBankPrice) ==
    IF worldBankPrice # <<>>
    THEN Append(rs, PriceData(worldBankPrice[1].commodity, worldBankPrice[1].price,
                              worldBankPrice[1].currency, "World Bank", <<>>, "grain"))
    ELSE rs

\* worldBankPrices.find(...) after fetchWorldBankPrices([commodity]), over the
\* responses drawn (error: the request failed)
FetchedWorldBank ==
    [commodity \in TRIDGE_URLS |->
        {[error |-> response.status = "error",
          price |-> FirstFor(fetchWorldBankPrices(<<commodity>>, <<response>>), commodity)] :
            response \in WBResponses}]

WorldBankStep ==
    /\ pc = "worldBank"
    /\ LET grains == grainCommodities(options)
       IN  IF idx > Len(grains)
           THEN /\ pc' = "fallback"
                /\ idx' = 1
                /\ UNCHANGED <<results, outcome, failed>>
           ELSE LET commodity == grains[idx]
                IN  IF ~Found(results, commodity)
                    THEN \/ \E fetched \in FetchedWorldBank[commodity] :
                              LET worldBankPrice == fetched.price
                              IN  /\ results' = PushWorldBank(results, worldBankPrice)
                                  /\ outcome' = Mark(outcome, "World Bank", commodity,
                                                     IF worldBankPrice # <<>> THEN "quote"
                                                     ELSE "empty")
                                  /\ failed' = IF fetched.error
                                               THEN failed \cup {<<"World Bank", commodity>>}
                                               ELSE failed
                                  /\ pc' = pc
                                  /\ idx' = idx + 1
                         \/ /\ results' = results
                            /\ outcome' = Mark(outcome, "World Bank", commodity, "throw")
                            /\ failed' = failed \cup {<<"World Bank", commodity>>}
                            /\ pc' = AfterRejection("World Bank", pc)
                            /\ idx' = idx + 1
                    ELSE /\ idx' = idx + 1
                         /\ UNCHANGED <<pc, results, outcome, failed>>
    /\ UNCHANGED <<options, env, kamisRequests, live, conv, par,
                 scrape, db, posts>>

\* 5. Fallback: FALLBACK_PRICES[commodity] is truthy
InFallbackTable(commodity) ==
    commodity \in DOMAIN FALLBACK_PRICES /\ TruthyNum(FALLBACK_PRICES[commodity])

\* Variant of PushFallback without the test for an existing quote
PushFallbackUnguarded(rs, commodity) ==
    IF InFallbackTable(commodity)
    THEN Append(rs, PriceData(commodity, FALLBACK_PRICES[commodity], "USD", "Fallback", <<>>,
                              IF Includes(commodity, "FLOUR") THEN "flour" ELSE "grain"))
    ELSE rs

PushFallback(rs, commodity) ==
    IF ~Found(rs, commodity) /\ InFallbackTable(commodity)
    THEN Append(rs, PriceData(commodity, FALLBACK_PRICES[commodity], "USD", "Fallback", <<>>,
                              IF Includes(commodity, "FLOUR") THEN "flour" ELSE "grain"))
    ELSE rs

FallbackStep ==
    /\ pc = "fallback"
    /\ LET commodities == Commodities(options)
       IN  IF idx > Len(commodities)
           THEN /\ pc' = "done"
                /\ idx' = 1
                /\ results' = results
           ELSE /\ results' = PushFallback(results, commodities[idx])
                /\ pc' = pc
                /\ idx' = idx + 1
    /\ UNCHANGED <<options, env, outcome, failed, kamisRequests, live, conv, par,
                 scrape, db, posts>>

----------------------------------------------------------------------------
(* Calls of fetchWheatMaizePrices                                          *)

\* Commodity names a call may carry: the four supported ones and CORN, the
\* alias the fallback table does not hold
RequestNames == {"WHEAT", "MAIZE", "WHEAT FLOUR", "MAIZE FLOUR", "CORN"}

AllNames == RequestNames

FetchOptions ==
    [commodity : {<<>>} \cup {<<c>> : c \in RequestNames},
     includeFlour : BOOLEAN, useMockTridge : BOOLEAN, useMockKamis : BOOLEAN]

Environments ==
    [ALPHA_VANTAGE_KEY : {<<>>, <<"">>, <<"demo">>},
     USE_MOCK_TRIDGE : {<<>>, <<"true">>},
     USE_MOCK_KAMIS : {<<>>, <<"true">>},
     KES_TO_USD_RATE : {<<>>, <<"150">>},
     KAMIS_BAG_SIZE_KG : {<<>>},
     KAMIS_FLOUR_BAG_SIZE_KG : {<<>>}]

NoOutcome == [a \in Adapters |-> [c \in AllNames |-> "none"]]

LiveIdle == [pc |-> "idle", fn |-> "", symbols |-> <<>>, includeFlour |-> FALSE,
             commodities |-> <<>>, i |-> 1, allPrices |-> <<>>, price |-> <<>>,
             response |-> <<>>]

ConvIdle == [pc |-> "idle"]

ScrapeIdle == [pc |-> "idle"]

\* The three tables without a row
EmptyDb == [commodities |-> <<>>, markets |-> <<>>, commodityPrices |-> <<>>]

ParIdle == [pc |-> "idle", adapter |-> "", apiKey |-> "", commodities |-> <<>>,
            answers |-> <<>>, settled |-> <<>>, requests |-> 0, out |-> <<>>]

Init ==
    /\ pc = "alphaVantage"
    /\ idx = 1
    /\ options \in FetchOptions
    /\ env \in Environments
    /\ results = <<>>
    /\ outcome = NoOutcome
    /\ failed = {}
    /\ kamisRequests = <<>>
    /\ live = LiveIdle
    /\ conv = ConvIdle
    /\ par = ParIdle
    /\ scrape = ScrapeIdle
    /\ db = EmptyDb
    /\ posts = <<>>

Next ==
    \/ AlphaVantageStep
    \/ KamisFlourStep
    \/ KamisGrainStep
    \/ TridgeStep
    \/ WorldBankStep
    \/ FallbackStep

Spec == Init /\ [][Next]_vars

----------------------------------------------------------------------------
(* live-prices: fetchLivePrices, fetchLivePriceForSymbol and the            *)
(* GET /api/live-prices route                                              *)

MaxSymbols == 2

allCommodities == <<"WHEAT", "MAIZE", "WHEAT FLOUR", "MAIZE FLOUR">>

\* Variant of NormalizeSymbol without the CORN alias
NormalizeSymbolNoCorn(s) ==
    LET upper == Trim(ToUpperCase(s))
    IN  IF upper = "WHEAT-FLOUR" \/ upper = "WHEATFLOUR" THEN "WHEAT FLOUR"
        ELSE IF upper = "MAIZE-FLOUR" \/ upper = "MAIZEFLOUR" \/ upper = "CORN-FLOUR"
        THEN "MAIZE FLOUR"
        ELSE upper

\* The map callback of fetchLivePrices
NormalizeSymbol(s) ==
    LET upper == Trim(ToUpperCase(s))
    IN  IF upper = "CORN" THEN "MAIZE"
        ELSE IF upper = "WHEAT-FLOUR" \/ upper = "WHEATFLOUR" THEN "WHEAT FLOUR"
        ELSE IF upper = "MAIZE-FLOUR" \/ upper = "MAIZEFLOUR" \/ upper = "CORN-FLOUR"
        THEN "MAIZE FLOUR"
        ELSE upper

\* The normalization of fetchLivePriceForSymbol: three ifs in a row
NormalizeForSymbol(symbol) ==
    LET n0 == Trim(ToUpperCase(symbol))
        n1 == IF n0 = "CORN" THEN "MAIZE" ELSE n0
        n2 == IF n1 = "WHEAT-FLOUR" \/ n1 = "WHEATFLOUR" THEN "WHEAT FLOUR" ELSE n1
        n3 == IF n2 = "MAIZE-FLOUR" \/ n2 = "MAIZEFLOUR" \/ n2 = "CORN-FLOUR"
              THEN "MAIZE FLOUR" ELSE n2
    IN  n3

IsValidCommodity(s) == \E k \in 1..Len(allCommodities) : allCommodities[k] = s

RECURSIVE MapNormalize(_)
MapNormalize(symbols) ==
    IF symbols = <<>> THEN <<>>
    ELSE <<NormalizeSymbol(Head(symbols))>> \o MapNormalize(Tail(symbols))

\* The commodities fetchLivePrices loops over
LiveCommodities(symbols, includeFlour) ==
    IF Len(symbols) > 0
    THEN SelectSeq(MapNormalize(symbols), IsValidCommodity)
    ELSE IF includeFlour THEN allCommodities ELSE <<"WHEAT", "MAIZE">>

Symbols == {"MAIZE", "corn", " Wheat-Flour", "WHEAT FLOUR", "RICE"}

FetchWheatMaizeFor(commodity) ==
    [commodity |-> <<commodity>>, includeFlour |-> FALSE,
     useMockTridge |-> FALSE, useMockKamis |-> FALSE]

SymbolLists == UNION {[1..n -> Symbols] : n \in 0..MaxSymbols}

NoOptions == [commodity |-> <<>>, includeFlour |-> FALSE,
              useMockTridge |-> FALSE, useMockKamis |-> FALSE]

\* fetchLivePrices entered: the commodity list is built
LiveStart ==
    /\ live.pc = "start"
    /\ live.fn = "fetchLivePrices"
    /\ live' = [live EXCEPT !.pc = "loop",
                            !.commodities = LiveCommodities(live.symbols, live.includeFlour),
                            !.i = 1]
    /\ UNCHANGED <<pc, idx, options, env, results, outcome, failed, kamisRequests, conv, par,
                 scrape, db, posts>>

\* One loop iteration begins: fetchWheatMaizePrices({ commodity }) is called
LiveCall ==
    /\ live.pc = "loop"
    /\ live.i <= Len(live.commodities)
    /\ live' = [live EXCEPT !.pc = "await"]
    /\ pc' = "alphaVantage"
    /\ idx' = 1
    /\ options' = FetchWheatMaizeFor(live.commodities[live.i])
    /\ results' = <<>>
    /\ outcome' = NoOutcome
    /\ failed' = {}
    /\ kamisRequests' = <<>>
    /\ UNCHANGED <<env, conv, par,
                 scrape, db, posts>>

\* The awaited call has returned: allPrices.push(...prices)
LiveCollect ==
    /\ live.pc = "await"
    /\ live.fn = "fetchLivePrices"
    /\ pc = "done"
    /\ live' = [live EXCEPT !.pc = "loop", !.allPrices = @ \o results, !.i = @ + 1]
    /\ pc' = "idle"
    /\ options' = NoOptions
    /\ results' = <<>>
    /\ outcome' = NoOutcome
    /\ failed' = {}
    /\ kamisRequests' = <<>>
    /\ UNCHANGED <<idx, env, conv, par,
                 scrape, db, posts>>

\* The loop is over: allPrices is returned
LiveReturn ==
    /\ live.pc = "loop"
    /\ live.i > Len(live.commodities)
    /\ live' = [live EXCEPT !.pc = "done"]
    /\ UNCHANGED <<pc, idx, options, env, results, outcome, failed, kamisRequests, conv, par,
                 scrape, db, posts>>

\* GET /api/live-prices: fetchLivePrices({ symbols, region }) has returned and
\* the route answers (symbols <<>> is a request without the symbols parameter;
\* includeFlour is not given by the route)
LiveRespond ==
    /\ live.pc = "done"
    /\ live.fn = "fetchLivePrices"
    /\ ~live.includeFlour
    /\ live' = [live EXCEPT !.pc = "responded",
                            !.response = <<[success |-> TRUE, status |-> 200,
                                            data |-> live.allPrices,
                                            count |-> Len(live.allPrices)]>>]
    /\ UNCHANGED <<pc, idx, options, env, results, outcome, failed, kamisRequests, conv, par,
                 scrape, db, posts>>

\* fetchLivePriceForSymbol entered: null for an invalid symbol, else
\* fetchWheatMaizePrices({ commodity }) is called
SymbolStart ==
    /\ live.pc = "start"
    /\ live.fn = "fetchLivePriceForSymbol"
    /\ LET normalizedSymbol == NormalizeForSymbol(live.symbols[1])
       IN  IF ~IsValidCommodity(normalizedSymbol)
           THEN /\ live' = [live EXCEPT !.pc = "done", !.price = <<>>]
                /\ UNCHANGED <<pc, idx, options, results, outcome, failed, kamisRequests>>
           ELSE /\ live' = [live EXCEPT !.pc = "await", !.commodities = <<normalizedSymbol>>]
                /\ pc' = "alphaVantage"
                /\ idx' = 1
                /\ options' = FetchWheatMaizeFor(normalizedSymbol)
                /\ results' = <<>>
                /\ outcome' = NoOutcome
                /\ failed' = {}
                /\ kamisRequests' = <<>>
    /\ UNCHANGED <<env, conv, par,
                 scrape, db, posts>>

\* The awaited call has returned: prices[0], or null for an empty list
SymbolReturn ==
    /\ live.pc = "await"
    /\ live.fn = "fetchLivePriceForSymbol"
    /\ pc = "done"
    /\ live' = [live EXCEPT !.pc = "done",
                            !.price = IF Len(results) > 0 THEN <<results[1]>> ELSE <<>>]
    /\ pc' = "idle"
    /\ options' = NoOptions
    /\ results' = <<>>
    /\ outcome' = NoOutcome
    /\ failed' = {}
    /\ kamisRequests' = <<>>
    /\ UNCHANGED <<idx, env, conv, par,
                 scrape, db, posts>>

LiveEnvironments ==
    [ALPHA_VANTAGE_KEY : {<<>>, <<"demo">>},
     USE_MOCK_TRIDGE : {<<>>},
     USE_MOCK_KAMIS : {<<>>},
     KES_TO_USD_RATE : {<<>>},
     KAMIS_BAG_SIZE_KG : {<<>>},
     KAMIS_FLOUR_BAG_SIZE_KG : {<<>>}]

LiveInit ==
    /\ pc = "idle"
    /\ idx = 1
    /\ options = NoOptions
    /\ env \in LiveEnvironments
    /\ results = <<>>
    /\ outcome = NoOutcome
    /\ failed = {}
    /\ kamisRequests = <<>>
    /\ \/ live \in [pc : {"start"}, fn : {"fetchLivePrices"}, symbols : SymbolLists,
                    includeFlour : BOOLEAN, commodities : {<<>>}, i : {1},
                    allPrices : {<<>>}, price : {<<>>}, response : {<<>>}]
       \/ live \in [pc : {"start"}, fn : {"fetchLivePriceForSymbol"},
                    symbols : {<<s>> : s \in Symbols}, includeFlour : {FALSE},
                    commodities : {<<>>}, i : {1}, allPrices : {<<>>}, price : {<<>>},
                    response : {<<>>}]
    /\ conv = ConvIdle
    /\ par = ParIdle
    /\ scrape = ScrapeIdle
    /\ db = EmptyDb
    /\ posts = <<>>

LiveNext ==
    \/ LiveStart
    \/ LiveCall
    \/ AlphaVantageStep
    \/ KamisFlourStep
    \/ KamisGrainStep
    \/ TridgeStep
    \/ WorldBankStep
    \/ FallbackStep
    \/ LiveCollect
    \/ LiveReturn
    \/ LiveRespond
    \/ SymbolStart
    \/ SymbolReturn

LiveSpec == LiveInit /\ [][LiveNext]_vars

----------------------------------------------------------------------------
(* Normalizer harness: convertKamisPriceToUSD and getKamisFlourPricePerKg   *)
(* applied to one KamisPrice                                               *)

MaxWholePrice == 60

\* Prices in thousandths: 1 .. MaxWholePrice whole units and a few more for
\* every unit and currency; the per-bag prices of the mock data for unit BAG
ConvPrices == {1000 * k : k \in 1..MaxWholePrice} \cup {500, 55500, 200000}

ConvBagPrices == {4200000, 5400000}

ConvUnits ==
    {"KG", "kg", "KILOGRAM", "BAG", "bag", "2KG", "2 KG", "PACKET", "PKT", "MT", "90 KG BAG", ""}

ConvKamisPrices ==
    [commodity : {"WHEAT"}, price : ConvPrices, currency : {"KES", "USD"},
     market : {"Nairobi"}, unit : ConvUnits, productType : {"grain", "flour", ""}]
    \cup
    [commodity : {"WHEAT"}, price : ConvBagPrices, currency : {"KES"},
     market : {"Mombasa"}, unit : {"BAG", "bag"}, productType : {"grain", "flour", ""}]

\* Prices, rates and bag sizes are taken where the double arithmetic of the
\* code and exact arithmetic round to the same cent (no product lands on an
\* exact half cent that a double would miss).
\* The exchangeRate argument: <<>> when the caller leaves it to the default
ConvRates == {<<>>, <<ParseFloat("150")>>, <<ParseFloat("129.5")>>, <<ParseFloat("100")>>}

ConvEnvironments ==
    [ALPHA_VANTAGE_KEY : {<<>>},
     USE_MOCK_TRIDGE : {<<>>},
     USE_MOCK_KAMIS : {<<>>},
     KES_TO_USD_RATE : {<<>>, <<"155">>},
     KAMIS_BAG_SIZE_KG : {<<>>, <<"50">>},
     KAMIS_FLOUR_BAG_SIZE_KG : {<<>>, <<"1">>}]

ConvInit ==
    /\ pc = "idle"
    /\ idx = 1
    /\ options = NoOptions
    /\ env \in ConvEnvironments
    /\ results = <<>>
    /\ outcome = NoOutcome
    /\ failed = {}
    /\ kamisRequests = <<>>
    /\ live = LiveIdle
    /\ par = ParIdle
    /\ scrape = ScrapeIdle
    /\ db = EmptyDb
    /\ posts = <<>>
    /\ conv \in [pc : {"input"}, kamisPrice : ConvKamisPrices, exchangeRate : ConvRates]

\* The rate the call runs with
RateOf(c, e) == IF c.exchangeRate = <<>> THEN DefaultExchangeRate(e) ELSE c.exchangeRate[1]

Convert ==
    /\ conv.pc = "input"
    /\ conv' = [pc |-> "output", kamisPrice |-> conv.kamisPrice,
                exchangeRate |-> conv.exchangeRate,
                out |-> convertKamisPriceToUSD(conv.kamisPrice, RateOf(conv, env), env),
                perKg |-> getKamisFlourPricePerKg(conv.kamisPrice)]
    /\ UNCHANGED <<pc, idx, options, env, results, outcome, failed, kamisRequests, live, par,
                 scrape, db, posts>>

ConvNext == Convert

ConvSpec == ConvInit /\ [][ConvNext]_vars

----------------------------------------------------------------------------
(* Adapter list calls: scrapeTridgePrices and fetchAlphaVantagePrices run   *)
(* their per-commodity tasks concurrently under Promise.allSettled         *)

ParCommodityLists == {<<"WHEAT">>, <<"MAIZE">>, <<"WHEAT", "MAIZE">>, <<"MAIZE", "WHEAT">>}

\* What task k resolves to when it is fulfilled: <<>> for null
TaskValue(p, k) ==
    IF p.adapter = "Tridge" THEN scrapeTridgePrice(p.commodities[k], p.answers[k])
    ELSE fetchAlphaVantagePrice(p.commodities[k], p.apiKey, p.answers[k])

\* Variant of FulfilledValues that gives nothing when a task was rejected
RECURSIVE AllOrNothingValues(_, _)
AllOrNothingValues(p, k) ==
    IF \E j \in 1..Len(p.settled) : p.settled[j] = "rejected" THEN <<>>
    ELSE IF k > Len(p.commodities) THEN <<>>
    ELSE TaskValue(p, k) \o AllOrNothingValues(p, k + 1)

\* results.filter(fulfilled and value !== null).map(value), from task k on
RECURSIVE FulfilledValues(_, _)
FulfilledValues(p, k) ==
    IF k > Len(p.commodities) THEN <<>>
    ELSE (IF p.settled[k] = "fulfilled" THEN TaskValue(p, k) ELSE <<>>)
            \o FulfilledValues(p, k + 1)

\* The list call is entered: without a key fetchAlphaVantagePrices returns [],
\* else every task is started and issues its request
ParStart ==
    /\ par.pc = "start"
    /\ IF par.adapter = "Alpha Vantage" /\ par.apiKey = ""
       THEN par' = [par EXCEPT !.pc = "returned", !.out = <<>>]
       ELSE par' = [par EXCEPT !.pc = "settling", !.requests = Len(par.commodities)]
    /\ UNCHANGED <<pc, idx, options, env, results, outcome, failed, kamisRequests, live, conv,
                 scrape, db, posts>>

\* Task k is fulfilled (with a quote, or with null after a caught error)
TaskSettle(k) ==
    /\ par.pc = "settling"
    /\ par.settled[k] = "pending"
    /\ par' = [par EXCEPT !.settled[k] = "fulfilled"]
    /\ UNCHANGED <<pc, idx, options, env, results, outcome, failed, kamisRequests, live, conv,
                 scrape, db, posts>>

\* Task k is rejected
TaskReject(k) ==
    /\ par.pc = "settling"
    /\ par.settled[k] = "pending"
    /\ par' = [par EXCEPT !.settled[k] = "rejected"]
    /\ UNCHANGED <<pc, idx, options, env, results, outcome, failed, kamisRequests, live, conv,
                 scrape, db, posts>>

\* Promise.allSettled resolves when every task has settled: the list is returned
ParCollect ==
    /\ par.pc = "settling"
    /\ \A k \in 1..Len(par.settled) : par.settled[k] # "pending"
    /\ par' = [par EXCEPT !.pc = "returned", !.out = FulfilledValues(par, 1)]
    /\ UNCHANGED <<pc, idx, options, env, results, outcome, failed, kamisRequests, live, conv,
                 scrape, db, posts>>

ParCalls ==
    UNION {[pc : {"start"}, adapter : {"Tridge"}, apiKey : {""}, commodities : {cs},
            answers : [1..Len(cs) -> TridgePages], settled : {[k \in 1..Len(cs) |-> "pending"]},
            requests : {0}, out : {<<>>}] : cs \in ParCommodityLists}
    \cup
    UNION {[pc : {"start"}, adapter : {"Alpha Vantage"}, apiKey : {"", "demo"},
            commodities : {cs}, answers : [1..Len(cs) -> AVResponses],
            settled : {[k \in 1..Len(cs) |-> "pending"]},
            requests : {0}, out : {<<>>}] : cs \in ParCommodityLists}

ParInit ==
    /\ pc = "idle"
    /\ idx = 1
    /\ options = NoOptions
    /\ env \in {e \in Environments : \A v \in DOMAIN e : e[v] = <<>>}
    /\ results = <<>>
    /\ outcome = NoOutcome
    /\ failed = {}
    /\ kamisRequests = <<>>
    /\ live = LiveIdle
    /\ conv = ConvIdle
    /\ par \in ParCalls
    /\ scrape = ScrapeIdle
    /\ db = EmptyDb
    /\ posts = <<>>

\* An adapter list call on its own, or a fetchWheatMaizePrices call
AdapterInit ==
    \/ ParInit
    \/ Init

AdapterNext ==
    \/ ParStart
    \/ \E k \in DOMAIN par.settled : TaskSettle(k)
    \/ \E k \in DOMAIN par.settled : TaskReject(k)
    \/ ParCollect
    \/ AlphaVantageStep
    \/ KamisFlourStep
    \/ KamisGrainStep
    \/ TridgeStep
    \/ WorldBankStep
    \/ FallbackStep

AdapterSpec == AdapterInit /\ [][AdapterNext]_vars

----------------------------------------------------------------------------
(* Scraper harness: scrapeKamisPrices applied to one page                  *)

\* A table with skipped rows between the rows that are kept
MixedRows ==
    << <<"Beans", "Nakuru">>,
       <<"Rice", "Mombasa", "95", "kg">>,
       <<"Sorghum", "Eldoret", "N/A", "kg">>,
       <<"Unga wa Mahindi", "Nairobi", "0", "2kg">>,
       <<"Ugali Flour", "Nakuru", "KES 150", "2kg">>,
       <<"Corn", "Kitale", "3,100", "Bag">> >>

\* The calls: the pages of the orchestrator and pages of one or two tables,
\* with the arguments of scrapeKamisFlourPrices, of scrapeKamisWheatMaizePrices
\* and of a call without arguments
ScrapeCalls ==
    LET tables == {HtmlTable(classes, "", {}, rows) :
                       classes \in {{}, {"table"}},
                       rows \in {<<HeaderRow>>, GrainRows, MixedRows}}
        pages  == KamisPages
                  \cup {[status |-> "ok", tables |-> <<t>>] : t \in tables}
                  \cup {[status |-> "ok", tables |-> <<t, u>>] : t \in tables, u \in tables}
    IN  [pc : {"input"}, page : pages, commodities : {<<>>}, flourOnly : BOOLEAN,
         marketTable : {<<>>}, out : {<<>>}]
        \cup
        [pc : {"input"}, page : pages, commodities : {<< <<"WHEAT", "MAIZE", "CORN">> >>},
         flourOnly : {FALSE}, marketTable : {<<>>}, out : {<<>>}]

ScrapeInit ==
    /\ pc = "idle"
    /\ idx = 1
    /\ options = NoOptions
    /\ env \in {e \in Environments : \A v \in DOMAIN e : e[v] = <<>>}
    /\ results = <<>>
    /\ outcome = NoOutcome
    /\ failed = {}
    /\ kamisRequests = <<>>
    /\ live = LiveIdle
    /\ conv = ConvIdle
    /\ par = ParIdle
    /\ scrape \in ScrapeCalls
    /\ db = EmptyDb
    /\ posts = <<>>

\* The call runs: the table selected (<<>> for none) and the list returned
Scrape ==
    /\ scrape.pc = "input"
    /\ scrape' = [scrape EXCEPT
                     !.pc = "output",
                     !.marketTable = IF scrape.page.status = "error" THEN <<>>
                                     ELSE MarketTable(scrape.page),
                     !.out = scrapeKamisPrices(scrape.page, scrape.commodities,
                                               scrape.flourOnly)]
    /\ UNCHANGED <<pc, idx, options, env, results, outcome, failed, kamisRequests, live, conv,
                   par, db, posts>>

ScrapeSpec == ScrapeInit /\ [][Scrape]_vars

----------------------------------------------------------------------------
(* POST /api/oracle/wheat-maize and POST /api/oracle/kenya-flour: each      *)
(* request runs its awaited calls one at a time, and concurrent requests   *)
(* interleave between them.  posts[i] is one request: its route, its body   *)
(* (<<>> when request.json() rejects, else <<the parsed body>>, with "" for *)
(* a field that is missing), its position, the commodity code and market   *)
(* name it works with ("" before they are set or when there is none),      *)
(* commodityRecord and marketRecord (<<>> before they are set), the        *)
(* response status (0 before the response) and, for the properties, the    *)
(* tables it inserted into and the cause of an error response.             *)

MaxPosts == 2

\* The request bodies drawn for each route
PostBodies ==
    [route \in {"wheat-maize", "kenya-flour"} |->
        IF route = "wheat-maize"
        THEN { <<>>,
               <<[commodity |-> "WHEAT", price |-> "285.5", source |-> "manual", market |-> "Nairobi"]>>,
               <<[commodity |-> "WHEAT", price |-> "285.5", source |-> "manual", market |-> ""]>>,
               <<[commodity |-> "",      price |-> "285.5", source |-> "manual", market |-> "Nairobi"]>>,
               <<[commodity |-> "WHEAT", price |-> "",      source |-> "manual", market |-> "Nairobi"]>>,
               <<[commodity |-> "WHEAT", price |-> "285.5", source |-> "",       market |-> "Nairobi"]>> }
        ELSE { <<>>,
               <<[commodity |-> "wheat flour", price |-> "180", source |-> "", market |-> ""]>>,
               <<[commodity |-> "WHEAT FLOUR", price |-> "200", source |-> "", market |-> "Nairobi"]>>,
               <<[commodity |-> "maize flour", price |-> "145", source |-> "", market |-> "Nairobi"]>>,
               <<[commodity |-> "WHEAT",       price |-> "285.5", source |-> "manual", market |-> "Nairobi"]>>,
               <<[commodity |-> "",            price |-> "180", source |-> "", market |-> ""]>>,
               <<[commodity |-> "maize flour", price |-> "",    source |-> "", market |-> "Mombasa"]>> }]

PostInit ==
    /\ pc = "idle"
    /\ idx = 1
    /\ options = NoOptions
    /\ env \in {e \in Environments : \A v \in DOMAIN e : e[v] = <<>>}
    /\ results = <<>>
    /\ outcome = NoOutcome
    /\ failed = {}
    /\ kamisRequests = <<>>
    /\ live = LiveIdle
    /\ conv = ConvIdle
    /\ par = ParIdle
    /\ scrape = ScrapeIdle
    /\ db = EmptyDb
    /\ posts \in [1..MaxPosts ->
                    UNION {{[route |-> r, pc |-> "validate", body |-> b, code |-> "",
                             marketName |-> "", commodityRecord |-> <<>>,
                             marketRecord |-> <<>>, status |-> 0, inserted |-> {},
                             cause |-> ""] : b \in PostBodies[r]} :
                               r \in {"wheat-maize", "kenya-flour"}}]

\* db.query.<table>.findFirst({ where: eq(<table>.<column>, value) }):
\* <<>> for undefined, else <<the first row>>
findFirst(rows, column, value) ==
    LET hits == {k \in 1..Len(rows) : rows[k][column] = value}
    IN  IF hits = {} THEN <<>>
        ELSE <<rows[CHOOSE k \in hits : \A j \in hits : k <= j]>>

\* wheat-maize: await request.json(), whose rejection the catch block answers
\* with 500, and the validation of the required fields
PostValidate(i) ==
    /\ posts[i].pc = "validate"
    /\ posts[i].route = "wheat-maize"
    /\ IF posts[i].body = <<>>
       THEN posts' = [posts EXCEPT ![i].pc = "responded", ![i].status = 500,
                                   ![i].cause = "unreadable"]
       ELSE LET body == posts[i].body[1]
            IN  IF body.commodity = "" \/ body.price = "" \/ body.source = ""
                THEN posts' = [posts EXCEPT ![i].pc = "responded", ![i].status = 400,
                                            ![i].cause = "missing fields"]
                ELSE posts' = [posts EXCEPT ![i].pc = "findCommodity",
                                            ![i].code = body.commodity,
                                            ![i].marketName = body.market]
    /\ UNCHANGED <<pc, idx, options, env, results, outcome, failed, kamisRequests, live, conv,
                   par, scrape, db>>

\* kenya-flour: await request.json(), the validation of the required fields
\* and of the commodity type; the market is Nairobi when the body names none
FlourPostValidate(i) ==
    /\ posts[i].pc = "validate"
    /\ posts[i].route = "kenya-flour"
    /\ IF posts[i].body = <<>>
       THEN posts' = [posts EXCEPT ![i].pc = "responded", ![i].status = 500,
                                   ![i].cause = "unreadable"]
       ELSE LET body == posts[i].body[1]
                upperCommodity == ToUpperCase(body.commodity)
            IN  IF body.commodity = "" \/ body.price = ""
                THEN posts' = [posts EXCEPT ![i].pc = "responded", ![i].status = 400,
                                            ![i].cause = "missing fields"]
                ELSE IF upperCommodity # "WHEAT FLOUR" /\ upperCommodity # "MAIZE FLOUR"
                THEN posts' = [posts EXCEPT ![i].pc = "responded", ![i].status = 400,
                                            ![i].cause = "invalid commodity"]
                ELSE posts' = [posts EXCEPT ![i].pc = "findCommodity",
                                            ![i].code = upperCommodity,
                                            ![i].marketName = IF body.market # "" THEN body.market
                                                              ELSE "Nairobi"]
    /\ UNCHANGED <<pc, idx, options, env, results, outcome, failed, kamisRequests, live, conv,
                   par, scrape, db>>

\* await db.query.commodities.findFirst: the row, or the rejection that the
\* catch block answers with 500
FindCommodity(i) ==
    /\ posts[i].pc = "findCommodity"
    /\ \/ LET commodityRecord == findFirst(db.commodities, "code", posts[i].code)
          IN  posts' = [posts EXCEPT
                  ![i].commodityRecord = commodityRecord,
                  ![i].pc = IF commodityRecord = <<>> THEN "insertCommodity"
                            ELSE IF posts[i].marketName # "" THEN "findMarket"
                            ELSE "insertPrice"]
       \/ posts' = [posts EXCEPT ![i].pc = "responded", ![i].status = 500,
                                 ![i].cause = "storage"]
    /\ UNCHANGED <<pc, idx, options, env, results, outcome, failed, kamisRequests, live, conv,
                   par, scrape, db>>

\* await db.insert(commodities).values({ code, name }).returning(): code is
\* unique, so the insert is rejected when a row with the code exists
InsertCommodity(i) ==
    /\ posts[i].pc = "insertCommodity"
    /\ \/ /\ findFirst(db.commodities, "code", posts[i].code) = <<>>
          /\ LET newCommodity == [id |-> Len(db.commodities) + 1,
                                  code |-> posts[i].code,
                                  name |-> posts[i].code]
             IN  /\ db' = [db EXCEPT !.commodities = Append(@, newCommodity)]
                 /\ posts' = [posts EXCEPT
                        ![i].commodityRecord = <<newCommodity>>,
                        ![i].inserted = @ \cup {"commodities"},
                        ![i].pc = IF posts[i].marketName # "" THEN "findMarket"
                                  ELSE "insertPrice"]
       \/ /\ findFirst(db.commodities, "code", posts[i].code) # <<>>
          /\ db' = db
          /\ posts' = [posts EXCEPT ![i].pc = "responded", ![i].status = 500,
                                    ![i].cause = "unique"]
       \/ /\ db' = db
          /\ posts' = [posts EXCEPT ![i].pc = "responded", ![i].status = 500,
                                    ![i].cause = "storage"]
    /\ UNCHANGED <<pc, idx, options, env, results, outcome, failed, kamisRequests, live, conv,
                   par, scrape>>

\* await db.query.markets.findFirst
FindMarket(i) ==
    /\ posts[i].pc = "findMarket"
    /\ \/ LET marketRecord == findFirst(db.markets, "name", posts[i].marketName)
          IN  posts' = [posts EXCEPT
                  ![i].marketRecord = marketRecord,
                  ![i].pc = IF marketRecord = <<>> THEN "insertMarket" ELSE "insertPrice"]
       \/ posts' = [posts EXCEPT ![i].pc = "responded", ![i].status = 500,
                                 ![i].cause = "storage"]
    /\ UNCHANGED <<pc, idx, options, env, results, outcome, failed, kamisRequests, live, conv,
                   par, scrape, db>>

\* await db.insert(markets).values({ name, country, countryCode, region })
\* .returning(): no column of markets but the id is unique
InsertMarket(i) ==
    /\ posts[i].pc = "insertMarket"
    /\ \/ LET newMarket == [id |-> Len(db.markets) + 1, name |-> posts[i].marketName]
          IN  /\ db' = [db EXCEPT !.markets = Append(@, newMarket)]
              /\ posts' = [posts EXCEPT
                     ![i].marketRecord = <<newMarket>>,
                     ![i].inserted = @ \cup {"markets"},
                     ![i].pc = "insertPrice"]
       \/ /\ db' = db
          /\ posts' = [posts EXCEPT ![i].pc = "responded", ![i].status = 500,
                                    ![i].cause = "storage"]
    /\ UNCHANGED <<pc, idx, options, env, results, outcome, failed, kamisRequests, live, conv,
                   par, scrape>>

\* await db.insert(commodityPrices).values({...}) and the success response
\* (marketId is <<>> where the code passes undefined; the bodies drawn name
\* no currency and no unit, so the defaults of the route are stored, and
\* kenya-flour stores the source Kamis)
InsertPrice(i) ==
    /\ posts[i].pc = "insertPrice"
    /\ \/ /\ db' = [db EXCEPT !.commodityPrices =
                       Append(@, [commodityId |-> posts[i].commodityRecord[1].id,
                                  marketId |-> IF posts[i].marketRecord = <<>> THEN <<>>
                                               ELSE <<posts[i].marketRecord[1].id>>,
                                  price |-> ParseFloat(posts[i].body[1].price),
                                  currency |-> IF posts[i].route = "kenya-flour" THEN "KES"
                                               ELSE "USD",
                                  unit |-> IF posts[i].route = "kenya-flour" THEN "KG"
                                           ELSE "MT",
                                  source |-> IF posts[i].route = "kenya-flour" THEN "Kamis"
                                             ELSE posts[i].body[1].source])]
          /\ posts' = [posts EXCEPT ![i].pc = "responded", ![i].status = 200,
                                    ![i].inserted = @ \cup {"commodity_prices"}]
       \/ /\ db' = db
          /\ posts' = [posts EXCEPT ![i].pc = "responded", ![i].status = 500,
                                    ![i].cause = "storage"]
    /\ UNCHANGED <<pc, idx, options, env, results, outcome, failed, kamisRequests, live, conv,
                   par, scrape>>

PostSpec ==
    PostInit /\ [][\E i \in 1..MaxPosts :
                      \/ PostValidate(i)
                      \/ FlourPostValidate(i)
                      \/ FindCommodity(i)
                      \/ InsertCommodity(i)
                      \/ FindMarket(i)
                      \/ InsertMarket(i)
                      \/ InsertPrice(i)]_vars

----------------------------------------------------------------------------
(* Properties of fetchWheatMaizePrices                                     *)

CanonicalCommodities == {"WHEAT", "MAIZE", "WHEAT FLOUR", "MAIZE FLOUR"}

\* The requested set of the running call
Requested == {Commodities(options)[k] : k \in 1..Len(Commodities(options))}

\* Positions of the quotes held for one commodity
QuotesFor(rs, commodity) == {k \in 1..Len(rs) : rs[k].commodity = commodity}

\* The adapters in priority order
SourceOrder == <<"Alpha Vantage", "Kamis", "Tridge", "World Bank">>

\* The adapters that returned a quote for the commodity during this call
Givers(commodity) == {k \in 1..Len(SourceOrder) : outcome[SourceOrder[k]][commodity] = "quote"}

FirstGiver(commodity) ==
    IF Givers(commodity) = {} THEN "Fallback"
    ELSE SourceOrder[CHOOSE k \in Givers(commodity) : \A j \in Givers(commodity) : k <= j]

\* A measure every step of the call increases: the step reached, then the loop index
StepRank(p) ==
    CASE p = "alphaVantage" -> 0
      [] p = "kamisFlour"   -> 1
      [] p = "kamisGrain"   -> 2
      [] p = "tridge"       -> 3
      [] p = "worldBank"    -> 4
      [] p = "fallback"     -> 5
      [] OTHER              -> 6

CallRank == 10 * StepRank(pc) + idx

SingleCanonicalRequest ==
    options.commodity # <<>> /\ options.commodity[1] \in CanonicalCommodities

\* The positions at which a step of the call is pending
StepPositions == {"alphaVantage", "kamisFlour", "kamisGrain", "tridge", "worldBank", "fallback"}

C1_State ==
    SingleCanonicalRequest =>
        /\ pc \in StepPositions \cup {"done"}
        /\ pc = "done" => /\ Len(results) = 1
                          /\ results[1].commodity = options.commodity[1]

\* C1: for each canonical commodity C and every combination of adapter
\* outcomes (quote, empty, exception), fetchWheatMaizePrices({commodity: C})
\* terminates and returns exactly one quote, whose commodity is C: the call
\* never aborts (it is at a pending step or has returned), every step
\* increases a bounded measure, and the returned list is one quote for C.
C1_SingleCommodityOneQuote ==
    /\ [] C1_State
    /\ [][SingleCanonicalRequest => (CallRank' > CallRank /\ CallRank' <= 61)]_vars

\* A single-commodity call has returned after its only adapter threw
C1_Witness ==
    /\ pc = "done"
    /\ options.commodity = <<"WHEAT FLOUR">>
    /\ outcome["Kamis"]["WHEAT FLOUR"] = "throw"
    /\ Len(results) = 1
    /\ results[1].commodity = "WHEAT FLOUR"

\* C2: at every point of a call, each quote held for a commodity C has as its
\* source the first adapter, in the order Alpha Vantage, Kamis, Tridge, World
\* Bank, that returned a quote for C during the call, and Fallback only when
\* no adapter returned one; when the call has returned, every commodity some
\* adapter returned a quote for has a quote.
C2_SourceIsFirstAdapterWithQuote ==
    /\ \A k \in 1..Len(results) : results[k].source = FirstGiver(results[k].commodity)
    /\ pc = "done" =>
           \A c \in Requested : Givers(c) # {} => QuotesFor(results, c) # {}

\* The market scrape returned a WHEAT quote after the financial API gave none,
\* and the call returned WHEAT with source Kamis
C2_Witness ==
    /\ pc = "done"
    /\ outcome["Alpha Vantage"]["WHEAT"] = "empty"
    /\ outcome["Kamis"]["WHEAT"] = "quote"
    /\ \E k \in 1..Len(results) :
           results[k].commodity = "WHEAT" /\ results[k].source = "Kamis"

\* Every consultation of every adapter for the commodity failed (its upstream
\* request failed or its call rejected), returned nothing, or was not made
NothingFrom(commodity) ==
    \A a \in Adapters :
        \/ <<a, commodity>> \in failed
        \/ outcome[a][commodity] \in {"none", "empty", "throw"}

\* C3: when every adapter fails or returns empty, the default request
\* [WHEAT, MAIZE] returns exactly 2 quotes, both with source Fallback, with
\* price 280 for WHEAT and 220 for MAIZE.
C3_AllAdaptersFailGivesFallback ==
    ( /\ pc = "done"
      /\ options.commodity = <<>>
      /\ ~options.includeFlour
      /\ NothingFrom("WHEAT")
      /\ NothingFrom("MAIZE") )
    => /\ Len(results) = 2
       /\ results[1].commodity = "WHEAT" /\ results[1].source = "Fallback"
       /\ results[1].price = 280000
       /\ results[2].commodity = "MAIZE" /\ results[2].source = "Fallback"
       /\ results[2].price = 220000

\* C4: the call never throws, and an exception raised while consulting one
\* adapter for one commodity is treated as zero quotes from that adapter: no
\* quote held for the commodity has the failed adapter as its source.
C4_FailureMeansZeroQuotes ==
    /\ pc # "threw"
    /\ \A k \in 1..Len(results) :
           <<results[k].source, results[k].commodity>> \notin failed

\* C5: every quote of the result has a numeric price strictly greater than 0.
C5_EveryPricePositive ==
    \A k \in 1..Len(results) : GtZero(results[k].price)

\* C6: at every point of a call, for any request, the accumulator holds at
\* most one quote per commodity and only quotes of requested commodities.
C6_AccumulatorOnePerRequestedCommodity ==
    /\ \A j, k \in 1..Len(results) : results[j].commodity = results[k].commodity => j = k
    /\ \A k \in 1..Len(results) : results[k].commodity \in Requested

\* Midway through an includeFlour call the accumulator holds both flour quotes
\* and one grain quote
C6_Witness ==
    /\ pc = "kamisGrain"
    /\ options.commodity = <<>>
    /\ options.includeFlour
    /\ Len(results) = 3
    /\ results[3].source = "Kamis"

\* C7: fetchLivePrices returns at most one quote per commodity for any
\* symbols list, repeated symbols and aliases included.
C7_LiveOneQuotePerCommodity ==
    live.pc = "done" =>
        \A j, k \in 1..Len(live.allPrices) :
            live.allPrices[j].commodity = live.allPrices[k].commodity => j = k

\* The fallback table as the claim states it, in thousandths
StatedFallback(commodity) ==
    CASE commodity = "WHEAT"       -> 280000
      [] commodity = "MAIZE"       -> 220000
      [] commodity = "WHEAT FLOUR" -> 650000
      [] commodity = "MAIZE FLOUR" -> 480000

\* C8: after the call, every requested commodity that no adapter resolved has
\* exactly one quote, with source Fallback and the table's price, if it is in
\* the fallback table, and no quote at all if it is not.
C8_UnresolvedGetFallbackOrNothing ==
    pc = "done" =>
        \A c \in Requested :
            Givers(c) = {} =>
                IF c \in CanonicalCommodities
                THEN /\ Cardinality(QuotesFor(results, c)) = 1
                     /\ \A k \in QuotesFor(results, c) :
                            /\ results[k].source = "Fallback"
                            /\ results[k].price = StatedFallback(c)
                            /\ results[k].currency = "USD"
                ELSE QuotesFor(results, c) = {}

\* An includeFlour call returned with WHEAT resolved by an adapter and WHEAT
\* FLOUR, which the market scrape threw on, filled from the table
C8_Witness ==
    /\ pc = "done"
    /\ options.commodity = <<>>
    /\ options.includeFlour
    /\ outcome["Kamis"]["WHEAT FLOUR"] = "throw"
    /\ Givers("WHEAT") # {}
    /\ \E k \in 1..Len(results) :
           /\ results[k].commodity = "WHEAT FLOUR"
           /\ results[k].source = "Fallback"
           /\ results[k].price = 650000

----------------------------------------------------------------------------
(* Properties of convertKamisPriceToUSD                                    *)

\* c is n / d rounded to the nearest integer, halves going up (n >= 0, d > 0)
IsHalfUpRound(c, n, d) ==
    /\ 2 * (c * d - n) <= d
    /\ d < 2 * ((c + 1) * d - n)

ConvDone == conv.pc = "output"

\* The two units the code treats as kilograms
ConvIsKg == ToUpperCase(conv.kamisPrice.unit) \in {"KG", "KILOGRAM"}

\* C9: a quote in KES with unit KG or KILOGRAM and price p, at exchange rate
\* r, is mapped to p / r * 1000 rounded to 2 decimals (USD per MT); a quote
\* whose currency is not KES is not divided by the rate (p * 1000); price 55
\* at rate 150 gives 366.67.  Prices and rates are whole multiples of 0.5, so
\* the cents p / r * 100000 are compared as (p / 0.5) * 100000 over (r / 0.5).
C9_KgConversion ==
    (ConvDone /\ ConvIsKg) =>
        LET p == conv.kamisPrice.price
            r == RateOf(conv, env)
            cents == conv.out.price \div 10
        IN  /\ conv.out.price % 10 = 0
            /\ conv.out.currency = "USD"
            /\ IF conv.kamisPrice.currency = "KES"
               THEN IsHalfUpRound(cents, 100000 * (p \div 500), r \div 500)
               ELSE conv.out.price = 1000 * p
            /\ (p = 55000 /\ r = 150000 /\ conv.kamisPrice.currency = "KES")
                   => conv.out.price = 366670

\* 55 KES per KG at the rate 150 came out as 366.67
C9_Witness ==
    /\ ConvDone
    /\ conv.kamisPrice.price = 55000
    /\ conv.kamisPrice.currency = "KES"
    /\ conv.kamisPrice.unit = "KG"
    /\ conv.exchangeRate = <<150000>>
    /\ conv.out.price = 366670

\* The bag size in kilograms the claim names for the product type, read from
\* the configuration of the harness ("50" and "1" are its configured sizes)
StatedBagSize ==
    IF conv.kamisPrice.productType = "flour"
    THEN (IF env.KAMIS_FLOUR_BAG_SIZE_KG = <<>> THEN 2 ELSE 1)
    ELSE (IF env.KAMIS_BAG_SIZE_KG = <<>> THEN 90 ELSE 50)

\* C10: for unit BAG the USD price is divided by the bag size of the product
\* type (configured grain bag size, default 90 kg; configured flour packet
\* size, default 2 kg, for flour) and multiplied by 1000, then rounded to 2
\* decimals; 5400 KES, grain, rate 150, bag size 90 gives 400.00.
C10_BagConversion ==
    (ConvDone /\ ToUpperCase(conv.kamisPrice.unit) = "BAG") =>
        LET p == conv.kamisPrice.price
            r == RateOf(conv, env)
            cents == conv.out.price \div 10
        IN  /\ conv.out.price % 10 = 0
            /\ IF conv.kamisPrice.currency = "KES"
               THEN IsHalfUpRound(cents, 100000 * (p \div 500), (r \div 500) * StatedBagSize)
               ELSE IsHalfUpRound(cents, 100 * p, StatedBagSize)
            /\ ( /\ p = 5400000 /\ r = 150000 /\ conv.kamisPrice.currency = "KES"
                 /\ conv.kamisPrice.productType = "grain" /\ env.KAMIS_BAG_SIZE_KG = <<>> )
                   => conv.out.price = 400000

\* 5400 KES per 90 kg bag of grain at the rate 150 came out as 400.00
C10_Witness ==
    /\ ConvDone
    /\ conv.kamisPrice.price = 5400000
    /\ conv.kamisPrice.currency = "KES"
    /\ conv.kamisPrice.unit = "BAG"
    /\ conv.kamisPrice.productType = "grain"
    /\ conv.exchangeRate = <<150000>>
    /\ env.KAMIS_BAG_SIZE_KG = <<>>
    /\ conv.out.price = 400000

\* The divisor in kilograms the claim names for the packet units
StatedPacketDivisor ==
    IF ToUpperCase(conv.kamisPrice.unit) \in {"2KG", "2 KG"} THEN 2
    ELSE IF conv.kamisPrice.productType = "flour" THEN 2 ELSE 1

\* C11: for unit 2KG or "2 KG" the USD price is divided by 2 and multiplied
\* by 1000; for unit PACKET or PKT it is divided by 2 when productType is
\* flour and by 1 otherwise, then multiplied by 1000; the result is rounded to
\* 2 decimals, and 200 KES at the rate 154 with unit 2KG gives 649.35.
C11_PacketConversion ==
    (ConvDone /\ ToUpperCase(conv.kamisPrice.unit) \in {"2KG", "2 KG", "PACKET", "PKT"}) =>
        LET p == conv.kamisPrice.price
            r == RateOf(conv, env)
            cents == conv.out.price \div 10
        IN  /\ conv.out.price % 10 = 0
            /\ IF conv.kamisPrice.currency = "KES"
               THEN IsHalfUpRound(cents, 100000 * (p \div 500),
                                  (r \div 500) * StatedPacketDivisor)
               ELSE IsHalfUpRound(cents, 100 * p, StatedPacketDivisor)
            /\ ( /\ p = 200000 /\ r = 154000 /\ conv.kamisPrice.currency = "KES"
                 /\ conv.kamisPrice.unit = "2KG" )
                   => conv.out.price = 649350

\* 200 KES per 2 kg packet at the default rate 154 came out as 649.35
C11_Witness ==
    /\ ConvDone
    /\ conv.kamisPrice.price = 200000
    /\ conv.kamisPrice.currency = "KES"
    /\ conv.kamisPrice.unit = "2KG"
    /\ conv.kamisPrice.productType = "flour"
    /\ conv.exchangeRate = <<>>
    /\ env.KES_TO_USD_RATE = <<>>
    /\ conv.out.price = 649350

\* The units the code scales
ScaledUnits == {"KG", "KILOGRAM", "BAG", "2KG", "2 KG", "PACKET", "PKT"}

\* The result is the price after currency conversion only, rounded to 2
\* decimals, and the quote is returned (same commodity and market, currency
\* USD)
ConvNotScaled ==
    LET p == conv.kamisPrice.price
        r == RateOf(conv, env)
        cents == conv.out.price \div 10
    IN  /\ conv.out.price % 10 = 0
        /\ IF conv.kamisPrice.currency = "KES"
           THEN IsHalfUpRound(cents, 100 * (p \div 500), r \div 500)
           ELSE IsHalfUpRound(cents, p, 10)
        /\ conv.out.commodity = conv.kamisPrice.commodity
        /\ conv.out.market = conv.kamisPrice.market
        /\ conv.out.currency = "USD"

\* C12 as stated: for any unit other than KG, KILOGRAM, BAG, 2KG, "2 KG",
\* PACKET and PKT no unit scaling is applied: the result is the price after
\* currency conversion only, rounded to 2 decimals, and the quote is returned.
C12_AnyOtherUnitNotScaled ==
    (ConvDone /\ ToUpperCase(conv.kamisPrice.unit) \notin ScaledUnits) => ConvNotScaled

\* C12, amended: for any unit that is not empty and is other than KG,
\* KILOGRAM, BAG, 2KG, "2 KG", PACKET and PKT no unit scaling is applied: the
\* result is the price after currency conversion only, rounded to 2 decimals,
\* and the quote is returned.  A missing or empty unit is read as KG: the
\* price after currency conversion is multiplied by 1000.
C12_UnknownUnitNotScaled ==
    /\ (ConvDone /\ conv.kamisPrice.unit # ""
                 /\ ToUpperCase(conv.kamisPrice.unit) \notin ScaledUnits) => ConvNotScaled
    /\ (ConvDone /\ conv.kamisPrice.unit = "") =>
           LET p == conv.kamisPrice.price
               r == RateOf(conv, env)
               cents == conv.out.price \div 10
           IN  /\ conv.out.price % 10 = 0
               /\ conv.out.currency = "USD"
               /\ IF conv.kamisPrice.currency = "KES"
                  THEN IsHalfUpRound(cents, 100000 * (p \div 500), r \div 500)
                  ELSE conv.out.price = 1000 * p

\* 55 KES with the unit "90 KG BAG" at the rate 150 came out as 0.37
C12_Witness ==
    /\ ConvDone
    /\ conv.kamisPrice.price = 55000
    /\ conv.kamisPrice.currency = "KES"
    /\ conv.kamisPrice.unit = "90 KG BAG"
    /\ conv.exchangeRate = <<150000>>
    /\ conv.out.price = 370

----------------------------------------------------------------------------
(* Shape of the quotes of fetchWheatMaizePrices                            *)

\* The sources of the quotes held
SourcesHeld == {results[k].source : k \in 1..Len(results)}

\* C13: every quote of fetchWheatMaizePrices, from any source (Alpha
\* Vantage, Kamis, Tridge, World Bank, Fallback), has currency "USD" and unit
\* "MT".
C13_QuotesAreUsdPerMt ==
    \A k \in 1..Len(results) :
        /\ results[k].source \in DataSource
        /\ results[k].currency = "USD"
        /\ results[k].unit = "MT"

\* An includeFlour call returned quotes of four different sources
C13_Witness ==
    /\ pc = "done"
    /\ Len(results) = 4
    /\ {"Alpha Vantage", "Kamis", "Tridge", "Fallback"} \subseteq SourcesHeld

\* C14: the price of every returned quote, whatever its source, is rounded
\* to 2 decimal places (a whole number of cents).
C14_EveryPriceRoundedToCents ==
    \A k \in 1..Len(results) :
        results[k].price # NaN => results[k].price % 10 = 0

----------------------------------------------------------------------------
(* Properties of live-prices                                               *)

\* The canonical commodity each symbol of the model stands for, as stated:
\* CORN is MAIZE and WHEAT-FLOUR is WHEAT FLOUR in any letter case; a name
\* that is no commodity (RICE) stands for itself
StatedCanonical ==
    [s \in Symbols |->
        CASE s = "corn" -> "MAIZE"
          [] s = " Wheat-Flour" -> "WHEAT FLOUR"
          [] OTHER -> s]

IsCanonical(c) == c \in CanonicalCommodities

\* The commodities a symbols list asks for, as stated
StatedCommodities(symbols) ==
    SelectSeq([k \in 1..Len(symbols) |-> StatedCanonical[symbols[k]]], IsCanonical)

\* Spellings of the two aliases and of their canonical names
CornSpellings == {"CORN", "corn", "Corn", " cOrN "}
WheatFlourSpellings == {"WHEAT-FLOUR", "wheat-flour", " Wheat-Flour", "wheat flour"}

\* Both functions send every spelling of an alias to what they send the
\* canonical name to
AliasesAgree ==
    /\ \A s \in CornSpellings :
          /\ NormalizeSymbol(s) = NormalizeSymbol("MAIZE")
          /\ NormalizeForSymbol(s) = NormalizeForSymbol("MAIZE")
    /\ \A s \in WheatFlourSpellings :
          /\ NormalizeSymbol(s) = NormalizeSymbol("WHEAT FLOUR")
          /\ NormalizeForSymbol(s) = NormalizeForSymbol("WHEAT FLOUR")
    /\ NormalizeSymbol("MAIZE") = "MAIZE" /\ NormalizeForSymbol("MAIZE") = "MAIZE"
    /\ NormalizeSymbol("WHEAT FLOUR") = "WHEAT FLOUR"
    /\ NormalizeForSymbol("WHEAT FLOUR") = "WHEAT FLOUR"

\* C15: alias normalization in fetchLivePrices and fetchLivePriceForSymbol.
\* A symbol enters a run only through the commodity of the fetchWheatMaizePrices
\* call made for it, so two requests whose symbols stand for the same
\* commodities make the same calls and, for identical adapter outcomes, return
\* the same result: every spelling of CORN is normalized like MAIZE and every
\* spelling of WHEAT-FLOUR like WHEAT FLOUR, the commodity list of
\* fetchLivePrices is the list of the canonical commodities the symbols stand
\* for, each call is made for that canonical commodity alone, and
\* fetchLivePriceForSymbol returns the first quote of the call for the
\* canonical commodity (null for a name that is no commodity).
C15_AliasesAreNormalized ==
    /\ AliasesAgree
    /\ (live.fn = "fetchLivePrices" /\ live.pc # "start" /\ Len(live.symbols) > 0)
          => live.commodities = StatedCommodities(live.symbols)
    /\ (live.fn = "fetchLivePrices" /\ live.pc = "await")
          => options = FetchWheatMaizeFor(live.commodities[live.i])
    /\ (live.fn = "fetchLivePriceForSymbol" /\ live.pc = "await")
          => /\ IsCanonical(StatedCanonical[live.symbols[1]])
             /\ options = FetchWheatMaizeFor(StatedCanonical[live.symbols[1]])
    /\ (live.fn = "fetchLivePriceForSymbol" /\ live.pc = "done")
          => IF IsCanonical(StatedCanonical[live.symbols[1]])
             THEN live.price # <<>> =>
                      live.price[1].commodity = StatedCanonical[live.symbols[1]]
             ELSE live.price = <<>>

\* fetchLivePrices has returned the quotes asked for by two aliases
C15_Witness ==
    /\ live.fn = "fetchLivePrices"
    /\ live.pc = "done"
    /\ live.symbols = <<"corn", " Wheat-Flour">>
    /\ Len(live.allPrices) = 2
    /\ live.allPrices[1].commodity = "MAIZE"
    /\ live.allPrices[2].commodity = "WHEAT FLOUR"

----------------------------------------------------------------------------
(* Properties of the adapter calls and of the order of the steps           *)

\* The positions of task lists at which commodity c is fetched
TasksFor(c) == {k \in 1..Len(par.commodities) : par.commodities[k] = c}

\* The fetch of task k threw or was rejected: its request failed, or its
\* promise was rejected
TaskFailed(k) == par.settled[k] = "rejected" \/ par.answers[k].status = "error"

\* The fetch of task k succeeded: it was fulfilled with a quote
TaskSucceeded(k) ==
    /\ par.settled[k] = "fulfilled"
    /\ scrapeTridgePrice(par.commodities[k], par.answers[k]) # <<>>

\* C16: partial-failure isolation in scrapeTridgePrices.  When the concurrent
\* fetch for MAIZE throws or is rejected and the fetch for WHEAT succeeds, in
\* whatever order the two settle, the list returned holds exactly the WHEAT
\* quote; and in fetchWheatMaizePrices a WHEAT quote given by Tridge (no
\* higher-priority adapter having resolved WHEAT) is held with source Tridge,
\* also when the Tridge call for MAIZE failed or rejected.
C16_TridgePartialFailureIsolated ==
    /\ (par.pc = "returned" /\ par.adapter = "Tridge")
          => \A w \in TasksFor("WHEAT"), m \in TasksFor("MAIZE") :
                 (TaskSucceeded(w) /\ TaskFailed(m))
                     => /\ Len(par.out) = 1
                        /\ par.out[1] = scrapeTridgePrice("WHEAT", par.answers[w])[1]
                        /\ par.out[1].commodity = "WHEAT"
    /\ outcome["Tridge"]["WHEAT"] = "quote"
          => /\ outcome["Alpha Vantage"]["WHEAT"] # "quote"
             /\ outcome["Kamis"]["WHEAT"] # "quote"
             /\ \E k \in 1..Len(results) :
                    /\ results[k].commodity = "WHEAT"
                    /\ results[k].source = "Tridge"
                    /\ QuotesFor(results, "WHEAT") = {k}

\* scrapeTridgePrices(['WHEAT', 'MAIZE']) has returned the WHEAT quote after
\* the MAIZE task was rejected
C16_Witness ==
    /\ par.pc = "returned"
    /\ par.adapter = "Tridge"
    /\ par.commodities = <<"WHEAT", "MAIZE">>
    /\ par.settled = <<"fulfilled", "rejected">>
    /\ Len(par.out) = 1
    /\ par.out[1].commodity = "WHEAT"
    /\ par.out[1].price = 280500

\* C17: a request that names an invalid commodity is never answered with a
\* success response by GET /api/live-prices.
C17_InvalidSymbolIsRejected ==
    (/\ live.pc = "responded"
     /\ \E k \in 1..Len(live.symbols) : ~IsCanonical(StatedCanonical[live.symbols[k]]))
        => ~live.response[1].success

\* No Alpha Vantage key is configured: the variable is unset or empty
NoKeyConfigured == env.ALPHA_VANTAGE_KEY \in {<<>>, <<"">>}

\* C18: when no Alpha Vantage key is configured, fetchWheatMaizePrices never
\* invokes the Alpha Vantage adapter, holds no quote with source Alpha Vantage
\* and goes on to the next source without error; fetchAlphaVantagePrices
\* called with an empty key returns an empty list without issuing a request.
C18_NoKeySkipsAlphaVantage ==
    /\ NoKeyConfigured
          => /\ \A c \in AllNames : /\ outcome["Alpha Vantage"][c] = "none"
                                    /\ <<"Alpha Vantage", c>> \notin failed
             /\ "Alpha Vantage" \notin SourcesHeld
             /\ pc \in StepPositions \cup {"done", "idle"}
    /\ (par.adapter = "Alpha Vantage" /\ par.apiKey = "")
          => /\ par.pc \in {"start", "returned"}
             /\ par.requests = 0
             /\ par.out = <<>>

\* A call with an empty key has returned quotes of the later sources
C18_Witness ==
    /\ pc = "done"
    /\ env.ALPHA_VANTAGE_KEY = <<"">>
    /\ options.commodity = <<>>
    /\ ~options.includeFlour
    /\ Len(results) = 2
    /\ results[1].source = "Kamis"
    /\ results[2].source = "Tridge"

\* The positions at which the quotes of a source are fetched and pushed
StepsOf(source) ==
    CASE source = "Alpha Vantage" -> {"alphaVantage"}
      [] source = "Kamis"         -> {"kamisFlour", "kamisGrain"}
      [] source = "Tridge"        -> {"tridge"}
      [] source = "World Bank"    -> {"worldBank"}
      [] source = "Fallback"      -> {"fallback"}

\* One step of a call keeps the order of the sources
InSourceOrder ==
    /\ StepRank(pc') \in {StepRank(pc), StepRank(pc) + 1}
    /\ \A a \in Adapters : outcome'[a] # outcome[a] => pc \in StepsOf(a)
    /\ Len(results') >= Len(results)
    /\ \A k \in (Len(results) + 1)..Len(results') : pc \in StepsOf(results'[k].source)
    /\ \A a \in {"Tridge", "World Bank"}, c \in AllNames :
           outcome'[a][c] # outcome[a][c] => QuotesFor(results, c) = {}

\* C19: within one fetchWheatMaizePrices call the sources are consulted one
\* after another in the order Alpha Vantage, Kamis, Tridge, World Bank,
\* Fallback: the position only moves to the next source, an adapter is invoked
\* and its quotes are pushed only while the call is at that source, and Tridge
\* and World Bank are never invoked for a commodity that already has a quote.
C19_SourcesInOrder == [][InSourceOrder]_vars

\* The World Bank step has passed over WHEAT, which Tridge resolved
C19_Witness ==
    /\ pc = "worldBank"
    /\ idx = 2
    /\ options.commodity = <<>>
    /\ outcome["Tridge"]["WHEAT"] = "quote"
    /\ outcome["World Bank"]["WHEAT"] = "none"
    /\ QuotesFor(results, "WHEAT") # {}

\* The requests of the log made in one pass
RequestsIn(pass) == {k \in 1..Len(kamisRequests) : kamisRequests[k].pass = pass}

\* C20: within one fetchWheatMaizePrices call the Kamis market page is
\* requested at most once in the flour pass and at most once in the grain
\* pass, and no request follows one that failed.
C20_MarketPageOncePerPass ==
    /\ Cardinality(RequestsIn("flour")) <= 1
    /\ Cardinality(RequestsIn("grain")) <= 1
    /\ \A j, k \in 1..Len(kamisRequests) : j < k => ~kamisRequests[j].error

----------------------------------------------------------------------------
(* Properties of scrapeKamisPrices                                         *)

ScrapeDone == scrape.pc = "output"

\* The rows of the table the call parsed
ScrapedRows == scrape.marketTable[1].rows

\* The name, the market and the price a row shows (NaN without a number)
RowName(cells) == ToUpperCase(Trim(cells[1]))
RowMarket(cells) == IF Trim(cells[2]) # "" THEN Trim(cells[2]) ELSE "Nairobi"
RowPrice(cells) ==
    LET priceMatch == PriceMatch(Trim(cells[3]))
    IN  IF priceMatch = <<>> THEN NaN ELSE ParseFloat(RemoveCommas(priceMatch[1]))

\* A row with at least three cells and a positive price
PricedRow(cells) == Len(cells) >= 3 /\ GtZero(RowPrice(cells))

\* C21: a row named exactly WHEAT or MAIZE with a positive price is emitted as
\* a grain quote with its commodity unchanged when grain quotes are scraped,
\* and is not emitted as a flour quote when flour quotes are scraped.
C21_GrainRowStaysGrain ==
    (ScrapeDone /\ scrape.marketTable # <<>>) =>
        \A k \in 1..Len(ScrapedRows) :
            LET cells == ScrapedRows[k]
            IN  (PricedRow(cells) /\ RowName(cells) \in {"WHEAT", "MAIZE"}) =>
                    IF scrape.flourOnly
                    THEN \A j \in 1..Len(scrape.out) :
                             ~(/\ scrape.out[j].price = RowPrice(cells)
                               /\ scrape.out[j].market = RowMarket(cells))
                    ELSE \E j \in 1..Len(scrape.out) :
                             /\ scrape.out[j].commodity = RowName(cells)
                             /\ scrape.out[j].productType = "grain"
                             /\ scrape.out[j].price = RowPrice(cells)

\* C22: whenever the page holds a table with more than one row, a table with
\* more than one row is selected and parsed.
C22_TableWithRowsIsFound ==
    (/\ ScrapeDone
     /\ scrape.page.status = "ok"
     /\ \E t \in 1..Len(scrape.page.tables) : Len(scrape.page.tables[t].rows) > 1)
        => /\ scrape.marketTable # <<>>
           /\ Len(ScrapedRows) > 1

\* C23: when the market page cannot be reached or no table is found,
\* scrapeKamisPrices returns the mock dataset (the flour mock when only flour
\* is asked for, the grain mock otherwise), which is not empty, and the call
\* returns (it never throws).
C23_MockWhenNoPageOrTable ==
    /\ scrape.pc \in {"idle", "input", "output"}
    /\ (ScrapeDone /\ (scrape.page.status = "error" \/ scrape.marketTable = <<>>))
          => /\ scrape.out = IF scrape.flourOnly THEN getMockKamisFlourPrices
                             ELSE getMockKamisPrices
             /\ Len(scrape.out) > 0
             /\ \A j \in 1..Len(scrape.out) :
                    scrape.out[j].productType = IF scrape.flourOnly THEN "flour" ELSE "grain"

\* The flour mock was returned for a page that could not be reached
C23_Witness ==
    /\ ScrapeDone
    /\ scrape.page.status = "error"
    /\ scrape.flourOnly
    /\ Len(scrape.out) = 8
    /\ scrape.out[1].commodity = "WHEAT FLOUR"
    /\ scrape.out[1].price = 200000

\* The row passes the commodity filter of the call
PassesFilter(cells) ==
    IF scrape.flourOnly THEN isFlourCommodity(RowName(cells)).isFlour
    ELSE IF scrape.commodities # <<>> THEN FilterHit(RowName(cells), scrape.commodities[1])
    ELSE TRUE

\* The rows that are to be emitted: priced rows that pass the filter
KeptRows == {k \in 1..Len(ScrapedRows) : PricedRow(ScrapedRows[k]) /\ PassesFilter(ScrapedRows[k])}

\* The j-th kept row, in table order
KeptRow(j) == CHOOSE k \in KeptRows : Cardinality({i \in KeptRows : i <= k}) = j

\* C27: a row with fewer than three cells, without a numeric price token or
\* with a non-positive price is skipped, and only that row: the list returned
\* holds one quote for every other row that passes the commodity filter, in
\* table order (the flour mock replaces an empty flour list).
C27_OnlyBadRowsSkipped ==
    (ScrapeDone /\ scrape.marketTable # <<>> /\ ~(scrape.flourOnly /\ KeptRows = {})) =>
        /\ Len(scrape.out) = Cardinality(KeptRows)
        /\ \A j \in 1..Len(scrape.out) :
               /\ scrape.out[j].price = RowPrice(ScrapedRows[KeptRow(j)])
               /\ scrape.out[j].market = RowMarket(ScrapedRows[KeptRow(j)])

\* Three rows of the mixed table were emitted around its three skipped rows
C27_Witness ==
    /\ ScrapeDone
    /\ scrape.marketTable # <<>>
    /\ ScrapedRows = MixedRows
    /\ scrape.commodities = <<>>
    /\ ~scrape.flourOnly
    /\ Len(scrape.out) = 3
    /\ scrape.out[1].commodity = "RICE"
    /\ scrape.out[2].commodity = "MAIZE FLOUR"
    /\ scrape.out[3].commodity = "CORN"

----------------------------------------------------------------------------
(* Properties of fetchWheatMaizePrices: the market scrape and its mock     *)

\* The price in KES per KG from which the mock dataset resolves a grain
StatedMockKes(commodity) == IF commodity = "WHEAT" THEN 55000 ELSE 45000

\* The market page could not be reached when it was requested for the grain
\* (the scrape itself returned), mock mode is off and the financial API gave
\* no quote for the grain
KamisUnreachableFor(c) ==
    /\ ~useMockKamis(options, env)
    /\ <<"Kamis", c>> \in failed
    /\ outcome["Kamis"][c] # "throw"
    /\ outcome["Alpha Vantage"][c] # "quote"

\* C24: when the market page is unreachable, mock mode is off and there is no
\* financial-API quote, a requested grain (WHEAT, MAIZE) is resolved with
\* source Kamis from the mock dataset (55 and 45 KES per KG, converted at the
\* configured rate); Tridge and World Bank are not invoked for it and it gets
\* no Fallback quote.
C24_UnreachableKamisServesMock ==
    pc = "done" =>
        \A c \in Requested \cap {"WHEAT", "MAIZE"} :
            KamisUnreachableFor(c) =>
                /\ Cardinality(QuotesFor(results, c)) = 1
                /\ \A k \in QuotesFor(results, c) :
                       /\ results[k].source = "Kamis"
                       /\ results[k].currency = "USD"
                       /\ results[k].price % 10 = 0
                       /\ IsHalfUpRound(results[k].price \div 10,
                                        100000 * (StatedMockKes(c) \div 500),
                                        DefaultExchangeRate(env) \div 500)
                /\ outcome["Tridge"][c] = "none"
                /\ outcome["World Bank"][c] = "none"

\* Both grains were resolved from the mock dataset at the rate 150 after the
\* page requests failed
C24_Witness ==
    /\ pc = "done"
    /\ options.commodity = <<>>
    /\ env.KES_TO_USD_RATE = <<"150">>
    /\ KamisUnreachableFor("WHEAT")
    /\ KamisUnreachableFor("MAIZE")
    /\ Len(results) = 2
    /\ results[1].commodity = "WHEAT" /\ results[1].source = "Kamis"
    /\ results[1].price = 366670
    /\ results[2].commodity = "MAIZE" /\ results[2].source = "Kamis"
    /\ results[2].price = 300000

\* The mock list the market scrape gives for a product type
StatedMockList(productType) ==
    IF productType = "flour" THEN getMockKamisFlourPrices ELSE getMockKamisPrices

\* The position of the first element of the list with the commodity
FirstPosition(list, commodity) ==
    CHOOSE k \in 1..Len(list) :
        /\ list[k].commodity = commodity
        /\ \A j \in 1..(k - 1) : list[j].commodity # commodity

\* C25: of several quotes an adapter returns for one commodity the first in
\* the list is used.  In mock mode the market scrape returns several markets
\* per commodity, and every Kamis quote returned has the market and the
\* converted price of the first list element with its commodity.
C25_FirstQuoteOfListIsUsed ==
    (pc = "done" /\ useMockKamis(options, env)) =>
        \A k \in 1..Len(results) :
            results[k].source = "Kamis" =>
                LET list  == StatedMockList(results[k].productType)
                    first == list[FirstPosition(list, results[k].commodity)]
                IN  /\ Cardinality(QuotesFor(list, results[k].commodity)) > 1
                    /\ results[k].market = <<first.market>>
                    /\ results[k].price
                         = convertKamisPriceToUSD(first, DefaultExchangeRate(env), env).price

\* A mock-mode call with flour returned the four Nairobi quotes
C25_Witness ==
    /\ pc = "done"
    /\ useMockKamis(options, env)
    /\ options.includeFlour
    /\ env.KES_TO_USD_RATE = <<>>
    /\ Cardinality({k \in 1..Len(results) : results[k].source = "Kamis"}) = 4
    /\ \E k \in 1..Len(results) :
           /\ results[k].commodity = "WHEAT FLOUR"
           /\ results[k].market = <<"Nairobi">>
           /\ results[k].price = 649350
    /\ \E k \in 1..Len(results) :
           /\ results[k].commodity = "WHEAT"
           /\ results[k].market = <<"Nairobi">>
           /\ results[k].price = 357140

\* C28: flour commodities are served by the market scrape and the fallback
\* table only: Alpha Vantage, Tridge and World Bank are never invoked with a
\* flour commodity, and every quote for WHEAT FLOUR or MAIZE FLOUR has source
\* Kamis or Fallback and productType flour.
C28_FlourOnlyFromKamisOrFallback ==
    /\ \A c \in {"WHEAT FLOUR", "MAIZE FLOUR"} :
           \A a \in {"Alpha Vantage", "Tridge", "World Bank"} :
               /\ outcome[a][c] = "none"
               /\ <<a, c>> \notin failed
    /\ \A k \in 1..Len(results) :
           results[k].commodity \in {"WHEAT FLOUR", "MAIZE FLOUR"}
               => /\ results[k].source \in {"Kamis", "Fallback"}
                  /\ results[k].productType = "flour"

\* A call with flour returned WHEAT from Tridge, WHEAT FLOUR from the market
\* scrape and MAIZE FLOUR from the fallback table
C28_Witness ==
    /\ pc = "done"
    /\ options.includeFlour
    /\ outcome["Tridge"]["WHEAT"] = "quote"
    /\ \E k \in 1..Len(results) :
           /\ results[k].commodity = "WHEAT FLOUR"
           /\ results[k].source = "Kamis"
           /\ results[k].productType = "flour"
    /\ \E k \in 1..Len(results) :
           /\ results[k].commodity = "MAIZE FLOUR"
           /\ results[k].source = "Fallback"
           /\ results[k].productType = "flour"

----------------------------------------------------------------------------
(* Properties of getKamisFlourPricePerKg                                   *)

\* The kilogram size by which convertKamisPriceToUSD divides the price of the
\* call, as C9 to C11 state it
StatedKgSize ==
    LET unit == ToUpperCase(conv.kamisPrice.unit)
    IN  IF unit \in {"KG", "KILOGRAM"} THEN 1
        ELSE IF unit = "BAG" THEN StatedBagSize
        ELSE StatedPacketDivisor

\* C26: getKamisFlourPricePerKg divides the price by the kilogram size that
\* convertKamisPriceToUSD uses for the unit and product type (also for unit
\* BAG with productType grain), rounds to 2 decimals, and returns the source
\* currency.
C26_PerKgUsesSameDivisor ==
    (ConvDone /\ ToUpperCase(conv.kamisPrice.unit) \in ScaledUnits) =>
        /\ conv.perKg.currency = conv.kamisPrice.currency
        /\ conv.perKg.pricePerKg % 10 = 0
        /\ IsHalfUpRound(conv.perKg.pricePerKg \div 10, conv.kamisPrice.price,
                         10 * StatedKgSize)

----------------------------------------------------------------------------
(* Properties of POST /api/oracle/wheat-maize                              *)

\* The wheat-maize requests that passed the validation of the required fields
ValidPosts ==
    {i \in 1..MaxPosts : /\ posts[i].route = "wheat-maize"
                         /\ posts[i].body # <<>>
                         /\ posts[i].body[1].commodity # ""
                         /\ posts[i].body[1].price # ""
                         /\ posts[i].body[1].source # ""}

RowsWith(rows, column, value) == {k \in 1..Len(rows) : rows[k][column] = value}

\* C29: when concurrent wheat-maize requests that name the same commodity
\* code and the same market name have all been answered, no other request
\* running and the database having failed on none of their calls, there is
\* exactly one commodities row for the code and exactly one markets row for
\* the name, and every request has stored its price record with a success
\* response.
C29_ConcurrentPostsCreateOneRow ==
    (/\ \A i \in 1..MaxPosts : /\ posts[i].route = "wheat-maize"
                                /\ posts[i].pc = "responded"
                                /\ posts[i].cause # "storage"
     /\ ValidPosts # {})
        => /\ \A i \in ValidPosts :
                  /\ Cardinality(RowsWith(db.commodities, "code", posts[i].body[1].commodity)) = 1
                  /\ posts[i].body[1].market # ""
                        => Cardinality(RowsWith(db.markets, "name", posts[i].body[1].market)) = 1
                  /\ posts[i].status = 200
           /\ Len(db.commodityPrices) = Cardinality(ValidPosts)

\* C30: a wheat-maize request answered with an error response (400 or 500)
\* has inserted no row into the commodities, markets or commodity_prices
\* table.
C30_ErrorLeavesTablesUnchanged ==
    \A i \in 1..MaxPosts :
        (/\ posts[i].route = "wheat-maize"
         /\ posts[i].pc = "responded"
         /\ posts[i].status \in {400, 500})
            => posts[i].inserted = {}
====
